---------------------------- MODULE Spec2Model ----------------------------
(***************************************************************************)
(* SafeCheck: the email verification server (server/routes.ts), its        *)
(* scoring engine (detectRiskFactors, calculateScore, determineStatus,     *)
(* determineRiskLevel, estimateDomainAge) and its storage (DbStorage).     *)
(*                                                                         *)
(* JavaScript values are tagged records, so that undefined, null, false    *)
(* and an absent property stay distinct the way the code distinguishes     *)
(* them.  Numbers are fixed-point, in thousandths (field m).  Strings the  *)
(* code takes apart (emails, domains) are sequences of one-character       *)
(* strings; labels and statuses the code only compares are TLA+ strings.   *)
(***************************************************************************)
EXTENDS Integers, Sequences, FiniteSets, TLC

(***************************************************************************)
(* State                                                                   *)
(***************************************************************************)
VARIABLES
  apiKey,   \* process.env.ABSTRACTAPI_KEY
  req,      \* the verify requests: where each handler stands and its locals
  history,  \* the rows of verification_history, in insertion order
  call,     \* one run of the engine on its own: its input and its outputs
  listing,  \* the last answer of GET /api/verification-history
  home      \* the Home page: its state hooks and its submissions

vars == <<apiKey, req, history, call, listing, home>>

(***************************************************************************)
(* JavaScript values                                                       *)
(***************************************************************************)
Undefined == [t |-> "undefined"]

Null == [t |-> "null"]

NaN == [t |-> "nan"]

Bool(b) == [t |-> "bool", b |-> b]

True == Bool(TRUE)

False == Bool(FALSE)

\* a number, in thousandths
Num(m) == [t |-> "num", m |-> m]

\* an integer number
Whole(n) == Num(n * 1000)

\* a string, as a sequence of characters
Str(s) == [t |-> "str", s |-> s]

\* an object; a property that is absent reads as undefined
Obj(f) == [t |-> "obj", f |-> f]

\* an array
Arr(a) == [t |-> "arr", a |-> a]

IsNullish(v) == v.t \in {"undefined", "null"}

\* o.k on a value that is not nullish
Get(o, k) ==
  IF o.t = "obj" /\ k \in DOMAIN o.f THEN o.f[k] ELSE Undefined

\* o?.k
OptGet(o, k) == IF IsNullish(o) THEN Undefined ELSE Get(o, k)

\* data.section?.field
Field(data, section, field) == OptGet(Get(data, section), field)

\* ToBoolean
Truthy(v) ==
  CASE v.t = "bool" -> v.b
    [] v.t = "num" -> v.m # 0
    [] v.t = "str" -> v.s # << >>
    [] v.t \in {"obj", "arr"} -> TRUE
    [] OTHER -> FALSE

\* a || b
Or(a, b) == IF Truthy(a) THEN a ELSE b

\* a ?? b
Coalesce(a, b) == IF IsNullish(a) THEN b ELSE a

\* v === true, v === false, v === null
IsTrue(v) == v.t = "bool" /\ v.b

IsFalse(v) == v.t = "bool" /\ ~v.b

IsNull(v) == v.t = "null"

\* v === "literal", for a string the code only compares
IsLit(v, lit) == v.t = "lit" /\ v.l = lit

\* a string value the code only compares (a status, a risk tier)
Lit(s) == [t |-> "lit", l |-> s]

(***************************************************************************)
(* Characters and strings                                                  *)
(***************************************************************************)
Digits == <<"0", "1", "2", "3", "4", "5", "6", "7", "8", "9">>

UpperCase ==
  <<"A", "B", "C", "D", "E", "F", "G", "H", "I", "J", "K", "L", "M",
    "N", "O", "P", "Q", "R", "S", "T", "U", "V", "W", "X", "Y", "Z">>

LowerCase ==
  <<"a", "b", "c", "d", "e", "f", "g", "h", "i", "j", "k", "l", "m",
    "n", "o", "p", "q", "r", "s", "t", "u", "v", "w", "x", "y", "z">>

IsDigit(c) == \E i \in 1..10 : Digits[i] = c

DigitValue(c) == (CHOOSE i \in 1..10 : Digits[i] = c) - 1

IsLetter(c) == \E i \in 1..26 : UpperCase[i] = c \/ LowerCase[i] = c

\* String.prototype.toLowerCase, one character
LowerChar(c) ==
  IF \E i \in 1..26 : UpperCase[i] = c
    THEN LowerCase[CHOOSE i \in 1..26 : UpperCase[i] = c]
    ELSE c

\* String.prototype.toLowerCase
ToLowerCase(s) == [i \in 1..Len(s) |-> LowerChar(s[i])]

\* s.startsWith(p)
StartsWith(s, p) == Len(s) >= Len(p) /\ SubSeq(s, 1, Len(p)) = p

\* String.prototype.includes
Includes(s, w) ==
  \E i \in 0..(Len(s) - Len(w)) : SubSeq(s, i + 1, i + Len(w)) = w

\* the position of the first occurrence of character c in s, 0 when none
IndexOfChar(s, c) ==
  IF \E i \in 1..Len(s) : s[i] = c
    THEN CHOOSE i \in 1..Len(s) : s[i] = c /\ \A j \in 1..(i - 1) : s[j] # c
    ELSE 0

\* String.prototype.split on a one-character separator
RECURSIVE Split(_, _)
Split(s, c) ==
  LET i == IndexOfChar(s, c) IN
    IF i = 0 THEN <<s>>
    ELSE <<SubSeq(s, 1, i - 1)>> \o Split(SubSeq(s, i + 1, Len(s)), c)

\* the decimal digits of a natural number
RECURSIVE NatDigits(_)
NatDigits(n) ==
  IF n < 10 THEN <<Digits[n + 1]>>
  ELSE NatDigits(n \div 10) \o <<Digits[(n % 10) + 1]>>

\* the digits of the fraction k/1000 (0 < k < 1000), trailing zeros dropped
FractionDigits(k) ==
  LET d == <<Digits[(k \div 100) + 1], Digits[((k \div 10) % 10) + 1],
             Digits[(k % 10) + 1]>>
      n == IF k % 10 # 0 THEN 3 ELSE IF k % 100 # 0 THEN 2 ELSE 1
  IN SubSeq(d, 1, n)

\* Number.prototype.toString of a number >= 0
NumberString(m) ==
  IF m % 1000 = 0 THEN NatDigits(m \div 1000)
  ELSE NatDigits(m \div 1000) \o <<".">> \o FractionDigits(m % 1000)

\* String(v), as a template literal interpolates it
JSString(v) ==
  CASE v.t = "str" -> v.s
    [] v.t = "num" -> NumberString(v.m)
    [] v.t = "lit" -> <<v.l>>
    [] v.t = "null" -> <<"n", "u", "l", "l">>
    [] v.t = "bool" -> IF v.b THEN <<"t", "r", "u", "e">>
                       ELSE <<"f", "a", "l", "s", "e">>
    [] OTHER -> <<"u", "n", "d", "e", "f", "i", "n", "e", "d">>

\* the length of the longest prefix of s made of digits
RECURSIVE DigitRun(_)
DigitRun(s) ==
  IF s # << >> /\ IsDigit(Head(s)) THEN 1 + DigitRun(Tail(s)) ELSE 0

\* the value of a sequence of digits
RECURSIVE DigitsValue(_)
DigitsValue(s) ==
  IF s = << >> THEN 0
  ELSE DigitsValue(SubSeq(s, 1, Len(s) - 1)) * 10 + DigitValue(s[Len(s)])

\* parseFloat: the longest decimal prefix (digits, then "." and digits); the
\* fraction is kept to thousandths, the resolution of the numbers modelled
ParseFloat(v) ==
  LET s == JSString(v)
      n == DigitRun(s)
      rest == SubSeq(s, n + 1, Len(s))
      f == IF rest # << >> /\ Head(rest) = "." THEN DigitRun(Tail(rest)) ELSE 0
      frac == SubSeq(SubSeq(rest, 2, f + 1) \o <<"0", "0", "0">>, 1, 3)
  IN IF n = 0 /\ f = 0 THEN NaN
     ELSE Num(DigitsValue(SubSeq(s, 1, n)) * 1000 + DigitsValue(frac))

\* ToNumber, for the comparison operators
ToNumber(v) ==
  CASE v.t = "num" -> v
    [] v.t = "null" -> Num(0)
    [] v.t = "bool" -> IF v.b THEN Num(1000) ELSE Num(0)
    [] OTHER -> NaN

\* v < m and v > m (m in thousandths); false when v is not a number
LessThan(v, m) == ToNumber(v).t = "num" /\ ToNumber(v).m < m

GreaterThan(v, m) == ToNumber(v).t = "num" /\ ToNumber(v).m > m

(***************************************************************************)
(* The constant tables of server/routes.ts                                 *)
(***************************************************************************)
MAJOR_EMAIL_PROVIDERS ==
  << <<"g","m","a","i","l",".","c","o","m">>,
     <<"g","o","o","g","l","e","m","a","i","l",".","c","o","m">>,
     <<"y","a","h","o","o",".","c","o","m">>,
     <<"y","a","h","o","o",".","c","o",".","u","k">>,
     <<"y","a","h","o","o",".","f","r">>,
     <<"y","a","h","o","o",".","d","e">>,
     <<"y","a","h","o","o",".","e","s">>,
     <<"y","a","h","o","o",".","i","t">>,
     <<"o","u","t","l","o","o","k",".","c","o","m">>,
     <<"h","o","t","m","a","i","l",".","c","o","m">>,
     <<"l","i","v","e",".","c","o","m">>,
     <<"m","s","n",".","c","o","m">>,
     <<"i","c","l","o","u","d",".","c","o","m">>,
     <<"m","e",".","c","o","m">>,
     <<"m","a","c",".","c","o","m">>,
     <<"a","o","l",".","c","o","m">>,
     <<"p","r","o","t","o","n","m","a","i","l",".","c","o","m">>,
     <<"p","r","o","t","o","n",".","m","e">>,
     <<"z","o","h","o",".","c","o","m">>,
     <<"m","a","i","l",".","c","o","m">>,
     <<"g","m","x",".","c","o","m">>,
     <<"g","m","x",".","n","e","t">>,
     <<"y","a","n","d","e","x",".","c","o","m">>,
     <<"y","a","n","d","e","x",".","r","u">> >>

SUSPICIOUS_DOMAIN_WORDS ==
  << <<"f","a","k","e">>,
     <<"t","e","m","p">>,
     <<"t","r","a","s","h">>,
     <<"s","p","a","m">>,
     <<"d","i","s","p","o","s","a","b","l","e">>,
     <<"t","h","r","o","w","a","w","a","y">>,
     <<"m","a","i","l","i","n","a","t","o","r">>,
     <<"g","u","e","r","r","i","l","l","a">>,
     <<"s","h","a","r","k","l","a","s","e","r","s">>,
     <<"t","r","a","s","h","m","a","i","l">>,
     <<"t","e","m","p","m","a","i","l">>,
     <<"y","o","p","m","a","i","l">>,
     <<"g","e","t","a","i","r","m","a","i","l">>,
     <<"f","a","k","e","i","n","b","o","x">>,
     <<"b","u","r","n","e","r">>,
     <<"a","n","o","n","y","m","o","u","s">> >>

\* each pattern is a prefix matched without regard to case; digits: the prefix
\* must be followed by at least one digit (/^user\d+/i)
SUSPICIOUS_USERNAME_PATTERNS ==
  << [prefix |-> <<"t","e","s","t">>, digits |-> FALSE],
     [prefix |-> <<"u","s","e","r">>, digits |-> TRUE],
     [prefix |-> <<"a","d","m","i","n">>, digits |-> FALSE],
     [prefix |-> <<"d","e","m","o">>, digits |-> FALSE],
     [prefix |-> <<"s","a","m","p","l","e">>, digits |-> FALSE],
     [prefix |-> <<"f","a","k","e">>, digits |-> FALSE],
     [prefix |-> <<"t","e","m","p">>, digits |-> FALSE],
     [prefix |-> <<"n","u","l","l">>, digits |-> FALSE],
     [prefix |-> <<"e","x","a","m","p","l","e">>, digits |-> FALSE],
     [prefix |-> <<"n","o","r","e","p","l","y">>, digits |-> FALSE],
     [prefix |-> <<"a","s","d","f">>, digits |-> FALSE],
     [prefix |-> <<"q","w","e","r","t","y">>, digits |-> FALSE],
     [prefix |-> <<"1","2","3","4","5">>, digits |-> FALSE],
     [prefix |-> <<"a","b","c","1","2","3">>, digits |-> FALSE] >>

\* Array.prototype.includes
ArrayIncludes(arr, x) == \E i \in 1..Len(arr) : arr[i] = x

\* Array.prototype.find, given the outcome of the test on each element: the
\* index of the first element that passes, 0 when none does
FindIndex(hits) ==
  IF \E i \in 1..Len(hits) : hits[i]
    THEN CHOOSE i \in 1..Len(hits) : hits[i] /\ \A j \in 1..(i - 1) : ~hits[j]
    ELSE 0

\* pattern.test(username)
PatternTest(p, username) ==
  /\ StartsWith(ToLowerCase(username), p.prefix)
  /\ p.digits =>
       /\ Len(username) > Len(p.prefix)
       /\ IsDigit(username[Len(p.prefix) + 1])

\* Array.prototype.join
RECURSIVE Join(_, _)
Join(parts, sep) ==
  IF parts = << >> THEN << >>
  ELSE IF Len(parts) = 1 THEN parts[1]
  ELSE parts[1] \o sep \o Join(Tail(parts), sep)

(***************************************************************************)
(* detectRiskFactors                                                       *)
(***************************************************************************)
\* a RiskFactor; the description is the sequence of its text pieces, the
\* interpolated values character by character
Factor(type, label, description) ==
  [type |-> type, label |-> label, description |-> description]

\* data.email_address || ''
EmailOf(data) == Or(Get(data, "email_address"), Str(<< >>))

\* const [username, domain] = email.split('@')
UsernameOf(data) == Str(Split(EmailOf(data).s, "@")[1])

DomainOf(data) ==
  LET parts == Split(EmailOf(data).s, "@")
  IN IF Len(parts) >= 2 THEN Str(parts[2]) ELSE Undefined

\* domain?.split('.')[0]?.toLowerCase() || ''
DomainNameOf(data) ==
  LET domain == DomainOf(data)
  IN IF IsNullish(domain) THEN << >>
     ELSE ToLowerCase(Split(domain.s, ".")[1])

\* SUSPICIOUS_DOMAIN_WORDS.find(word => domainName.includes(word))
SuspiciousDomainWord(data) ==
  LET i == FindIndex([k \in 1..Len(SUSPICIOUS_DOMAIN_WORDS) |->
                        Includes(DomainNameOf(data), SUSPICIOUS_DOMAIN_WORDS[k])])
  IN IF i = 0 THEN Undefined ELSE Str(SUSPICIOUS_DOMAIN_WORDS[i])

\* SUSPICIOUS_USERNAME_PATTERNS.find(p => p.pattern.test(username))
MatchedPattern(data) ==
  FindIndex([k \in 1..Len(SUSPICIOUS_USERNAME_PATTERNS) |->
               PatternTest(SUSPICIOUS_USERNAME_PATTERNS[k], UsernameOf(data).s)])

\* the reasons collected for a high risk address, in the order of the checks
HighRiskReasons(data) ==
  (IF /\ Field(data, "email_quality", "score") # Undefined
      /\ LessThan(Get(Get(data, "email_quality"), "score"), 300)
     THEN << <<"very low quality score from reputation analysis">> >>
     ELSE << >>)
  \o
  (IF IsLit(Field(data, "email_deliverability", "status"), "unknown")
     THEN << <<"email deliverability could not be confirmed">> >>
     ELSE << >>)
  \o
  (IF IsTrue(Field(data, "email_quality", "is_catchall"))
     THEN << <<"domain accepts all emails (catch-all), making it impossible to verify if this specific address exists">> >>
     ELSE << >>)
  \o
  (IF /\ IsTrue(Field(data, "email_quality", "is_free_email"))
      /\ IsLit(Field(data, "email_risk", "domain_risk_status"), "low")
     THEN << <<"combination of unverifiable address on a free email provider">> >>
     ELSE << >>)

HighRiskReasonText(data) ==
  LET reasons == HighRiskReasons(data)
  IN IF Len(reasons) > 0
       THEN <<"Reasons: ">> \o Join(reasons, <<"; ">>) \o <<".">>
       ELSE <<"The email reputation service detected patterns associated with spam, fraud, or abuse based on historical data and behavioral analysis.">>

\* data.email_breaches?.total_breaches ?? 0
BreachCount(data) ==
  Coalesce(Field(data, "email_breaches", "total_breaches"), Whole(0))

\* the exposure tiers with >= in place of >
BreachSeverity_inclusive(breachCount) ==
  IF GreaterThan(breachCount, 9999) THEN "significant exposure"
  ELSE IF GreaterThan(breachCount, 4999) THEN "moderate exposure"
  ELSE "some exposure"

BreachSeverity(breachCount) ==
  IF GreaterThan(breachCount, 10000) THEN "significant exposure"
  ELSE IF GreaterThan(breachCount, 5000) THEN "moderate exposure"
  ELSE "some exposure"

\* the suspicious domain pushed as a warning
SuspiciousDomainFactor_warning(data) ==
  IF Truthy(SuspiciousDomainWord(data))
    THEN << Factor("warning", "Suspicious Domain",
              <<"The domain \"">> \o JSString(DomainOf(data))
              \o <<"\" contains \"">> \o JSString(SuspiciousDomainWord(data))
              \o <<"\" which is commonly associated with temporary or fake email services. These domains are often used to create throwaway accounts.">>) >>
    ELSE << >>

SuspiciousDomainFactor(data) ==
  IF Truthy(SuspiciousDomainWord(data))
    THEN << Factor("danger", "Suspicious Domain",
              <<"The domain \"">> \o JSString(DomainOf(data))
              \o <<"\" contains \"">> \o JSString(SuspiciousDomainWord(data))
              \o <<"\" which is commonly associated with temporary or fake email services. These domains are often used to create throwaway accounts.">>) >>
    ELSE << >>

\* the factor pushed as a warning
UncommonUsernameFactor_warning(data) ==
  IF Truthy(UsernameOf(data)) /\ MatchedPattern(data) # 0
    THEN << Factor("warning", "Uncommon Username",
              <<"The username \"">> \o JSString(UsernameOf(data))
              \o <<"\" matches a pattern sometimes used for test accounts. This is noted for awareness but doesn't affect the trust score since many real users create custom usernames.">>) >>
    ELSE << >>

UncommonUsernameFactor(data) ==
  IF Truthy(UsernameOf(data)) /\ MatchedPattern(data) # 0
    THEN << Factor("info", "Uncommon Username",
              <<"The username \"">> \o JSString(UsernameOf(data))
              \o <<"\" matches a pattern sometimes used for test accounts. This is noted for awareness but doesn't affect the trust score since many real users create custom usernames.">>) >>
    ELSE << >>

UnusualUsernameFactor(data) ==
  IF IsTrue(Field(data, "email_quality", "is_username_suspicious"))
    THEN << Factor("info", "Unusual Username",
              <<"The username \"">> \o JSString(UsernameOf(data))
              \o <<"\" has an unusual pattern. This is noted for awareness but doesn't affect the trust score since users can create any username they want.">>) >>
    ELSE << >>

HighRiskFactor(data) ==
  IF IsLit(Field(data, "email_risk", "address_risk_status"), "high")
    THEN << Factor("danger", "High Risk Address",
              <<"This email has been classified as high risk by reputation analysis. ">>
              \o HighRiskReasonText(data)) >>
    ELSE << >>

DataBreachesFactor(data) ==
  LET breachCount == BreachCount(data)
  IN IF GreaterThan(breachCount, 0)
       THEN << Factor(IF GreaterThan(breachCount, 10000) THEN "danger" ELSE "warning",
                 "Data Breaches",
                 <<"This email was found in ">> \o JSString(breachCount)
                 \o <<" known data breach">>
                 \o (IF GreaterThan(breachCount, 1000) THEN <<"es">> ELSE << >>)
                 \o <<", indicating ">> \o <<BreachSeverity(breachCount)>>
                 \o <<". Breached emails are often targeted for spam, phishing, and credential stuffing attacks.">>) >>
       ELSE << >>

DisposableFactor(data) ==
  IF IsTrue(Field(data, "email_quality", "is_disposable"))
    THEN << Factor("danger", "Disposable Email",
              <<"This email uses a temporary/disposable email service (">>
              \o JSString(DomainOf(data))
              \o <<"). These addresses self-destruct after a short time and are commonly used to bypass verification, hide identity, or commit fraud.">>) >>
    ELSE << >>

RoleFactor(data) ==
  IF IsTrue(Field(data, "email_quality", "is_role"))
    THEN << Factor("warning", "Role-Based Email",
              <<"This appears to be a role-based email (like info@, support@, sales@) rather than a personal address. Role emails are shared by multiple people and may have higher bounce rates.">>) >>
    ELSE << >>

\* the factor without its test of the risk tier
CatchAllFactor_anyTier(data) ==
  IF IsTrue(Field(data, "email_quality", "is_catchall"))
    THEN << Factor("warning", "Catch-All Domain",
              <<"The domain ">> \o JSString(DomainOf(data))
              \o <<" is configured to accept all emails, even to non-existent addresses. This means we cannot verify if \"">>
              \o JSString(UsernameOf(data)) \o <<"\" is a real mailbox.">>) >>
    ELSE << >>

CatchAllFactor(data) ==
  IF /\ IsTrue(Field(data, "email_quality", "is_catchall"))
     /\ ~IsLit(Field(data, "email_risk", "address_risk_status"), "high")
    THEN << Factor("warning", "Catch-All Domain",
              <<"The domain ">> \o JSString(DomainOf(data))
              \o <<" is configured to accept all emails, even to non-existent addresses. This means we cannot verify if \"">>
              \o JSString(UsernameOf(data)) \o <<"\" is a real mailbox.">>) >>
    ELSE << >>

FreeEmailFactor(data) ==
  IF IsTrue(Field(data, "email_quality", "is_free_email"))
    THEN << Factor("info", "Free Email Provider",
              <<"This email uses ">>
              \o JSString(Or(Field(data, "email_sender", "email_provider_name"),
                             DomainOf(data)))
              \o <<", a free email service. Free providers are less verifiable than business domains, which may slightly reduce the trust score.">>) >>
    ELSE << >>

SpfFactor(data) ==
  IF /\ IsFalse(Field(data, "email_quality", "is_spf_strict"))
     /\ IsTrue(Field(data, "email_quality", "is_dmarc_enforced"))
    THEN << Factor("info", "SPF Not Strict",
              <<"The domain's SPF (Sender Policy Framework) is configured but not in strict mode. This is common for large email providers and has minimal impact on trust.">>) >>
    ELSE << >>

MediumRiskFactor(data) ==
  IF IsLit(Field(data, "email_risk", "address_risk_status"), "medium")
    THEN << Factor("info", "Medium Risk Classification",
              <<"This email has been classified as medium risk by reputation analysis. This could be due to limited email history, uncommon patterns, or other neutral factors.">>) >>
    ELSE << >>

\* the factors, pushed in the order of the checks
detectRiskFactors(data) ==
  SuspiciousDomainFactor(data) \o UncommonUsernameFactor(data)
  \o UnusualUsernameFactor(data) \o HighRiskFactor(data)
  \o DataBreachesFactor(data) \o DisposableFactor(data) \o RoleFactor(data)
  \o CatchAllFactor(data) \o FreeEmailFactor(data) \o SpfFactor(data)
  \o MediumRiskFactor(data)

(***************************************************************************)
(* calculateScore, determineStatus, determineRiskLevel, estimateDomainAge  *)
(***************************************************************************)
\* Math.round(x * 100) of a number x in thousandths: halves round up
RoundTimes100(x) == (x.m * 100 + 500) \div 1000

\* if (qualityScore) in place of the comparisons with undefined and null
StartScore_truthyQuality(data, smtpUnverifiable) ==
  LET qualityScore == Field(data, "email_quality", "score")
  IN IF Truthy(qualityScore)
       THEN RoundTimes100(ParseFloat(qualityScore))
       ELSE 50
            + (IF IsTrue(Field(data, "email_deliverability", "is_format_valid"))
                 THEN 15 ELSE 0)
            + (IF IsTrue(Field(data, "email_deliverability", "is_mx_valid"))
                 THEN 15 ELSE 0)
            + (IF IsTrue(Field(data, "email_deliverability", "is_smtp_valid"))
                 THEN 15 ELSE 0)
            + (IF smtpUnverifiable THEN 10 ELSE 0)

\* the value of score before the penalties: the quality override or 50 and
\* the bonuses
StartScore(data, smtpUnverifiable) ==
  LET qualityScore == Field(data, "email_quality", "score")
  IN IF qualityScore # Undefined /\ qualityScore # Null
       THEN RoundTimes100(ParseFloat(qualityScore))
       ELSE 50
            + (IF IsTrue(Field(data, "email_deliverability", "is_format_valid"))
                 THEN 15 ELSE 0)
            + (IF IsTrue(Field(data, "email_deliverability", "is_mx_valid"))
                 THEN 15 ELSE 0)
            + (IF IsTrue(Field(data, "email_deliverability", "is_smtp_valid"))
                 THEN 15 ELSE 0)
            + (IF smtpUnverifiable THEN 10 ELSE 0)

\* the penalties inside the else branch of the quality override
PayloadPenalty_withoutOverrideOnly(data) ==
  IF ~IsNullish(Field(data, "email_quality", "score")) THEN 0
  ELSE
    (IF IsFalse(Field(data, "email_deliverability", "is_smtp_valid"))
       THEN 25 ELSE 0)
  + (IF IsFalse(Field(data, "email_deliverability", "is_mx_valid"))
       THEN 30 ELSE 0)
  + (IF IsLit(Field(data, "email_deliverability", "status"), "undeliverable")
       THEN 20 ELSE 0)
  + (IF IsLit(Field(data, "email_deliverability", "status"), "unknown")
       THEN 15 ELSE 0)
  + (IF IsTrue(Field(data, "email_quality", "is_catchall")) THEN 10 ELSE 0)
  + (IF IsTrue(Field(data, "email_quality", "is_role")) THEN 5 ELSE 0)
  + (IF IsLit(Field(data, "email_risk", "address_risk_status"), "medium")
       THEN 10 ELSE 0)
  + (IF IsLit(Field(data, "email_risk", "address_risk_status"), "high")
       THEN 20 ELSE 0)

\* the penalties read from the payload
PayloadPenalty(data) ==
    (IF IsFalse(Field(data, "email_deliverability", "is_smtp_valid"))
       THEN 25 ELSE 0)
  + (IF IsFalse(Field(data, "email_deliverability", "is_mx_valid"))
       THEN 30 ELSE 0)
  + (IF IsLit(Field(data, "email_deliverability", "status"), "undeliverable")
       THEN 20 ELSE 0)
  + (IF IsLit(Field(data, "email_deliverability", "status"), "unknown")
       THEN 15 ELSE 0)
  + (IF IsTrue(Field(data, "email_quality", "is_catchall")) THEN 10 ELSE 0)
  + (IF IsTrue(Field(data, "email_quality", "is_role")) THEN 5 ELSE 0)
  + (IF IsLit(Field(data, "email_risk", "address_risk_status"), "medium")
       THEN 10 ELSE 0)
  + (IF IsLit(Field(data, "email_risk", "address_risk_status"), "high")
       THEN 20 ELSE 0)

\* the penalty of one risk factor with every danger factor at 50
FactorPenalty_flat50(factor) ==
  IF factor.type = "danger" THEN 50
  ELSE IF factor.type = "warning" THEN 15 ELSE 0

\* the penalty of one risk factor
FactorPenalty(factor) ==
  IF factor.type = "danger"
    THEN IF factor.label = "Suspicious Domain" THEN 50 ELSE 30
    ELSE IF factor.type = "warning" THEN 15 ELSE 0

\* the loop left after the first factor
FactorsPenalty_firstOnly(riskFactors) ==
  IF riskFactors = << >> THEN 0 ELSE FactorPenalty(Head(riskFactors))

\* for (const factor of riskFactors) ...
RECURSIVE FactorsPenalty(_)
FactorsPenalty(riskFactors) ==
  IF riskFactors = << >> THEN 0
  ELSE FactorPenalty(Head(riskFactors)) + FactorsPenalty(Tail(riskFactors))

\* score as it stands before the final clamp
RawScore(data, riskFactors, smtpUnverifiable) ==
  StartScore(data, smtpUnverifiable) - PayloadPenalty(data)
  - FactorsPenalty(riskFactors)

Min(a, b) == IF a < b THEN a ELSE b

Max(a, b) == IF a > b THEN a ELSE b

\* calculateScore with the lower clamp left out
calculateScore_noFloor(data, riskFactors, smtpUnverifiable) ==
  Min(100, RawScore(data, riskFactors, smtpUnverifiable))

calculateScore(data, riskFactors, smtpUnverifiable) ==
  Min(100, Max(0, RawScore(data, riskFactors, smtpUnverifiable)))

\* riskFactors.length in place of the filter
WarningsAndDangers_all(riskFactors) == Len(riskFactors)

\* riskFactors.filter(f => f.type === "warning" || f.type === "danger").length
WarningsAndDangers(riskFactors) ==
  Cardinality({i \in 1..Len(riskFactors) :
                 riskFactors[i].type \in {"warning", "danger"}})

\* determineStatus with the undeliverable check after the factor checks
determineStatus_dangerFirst(score, data, riskFactors) ==
  IF \E i \in 1..Len(riskFactors) : riskFactors[i].type = "danger"
    THEN "risky"
  ELSE IF WarningsAndDangers(riskFactors) > 1 THEN "risky"
  ELSE IF IsLit(Field(data, "email_deliverability", "status"), "undeliverable")
    THEN "invalid"
  ELSE IF score >= 70 THEN "safe"
  ELSE IF score >= 40 THEN "risky"
  ELSE "invalid"

\* the thresholds of the score tested before the factors
determineStatus_scoreFirst(score, data, riskFactors) ==
  IF IsLit(Field(data, "email_deliverability", "status"), "undeliverable")
    THEN "invalid"
  ELSE IF score >= 70 THEN "safe"
  ELSE IF \E i \in 1..Len(riskFactors) : riskFactors[i].type = "danger"
    THEN "risky"
  ELSE IF WarningsAndDangers(riskFactors) > 1 THEN "risky"
  ELSE IF score >= 40 THEN "risky"
  ELSE "invalid"

determineStatus(score, data, riskFactors) ==
  IF IsLit(Field(data, "email_deliverability", "status"), "undeliverable")
    THEN "invalid"
  ELSE IF \E i \in 1..Len(riskFactors) : riskFactors[i].type = "danger"
    THEN "risky"
  ELSE IF WarningsAndDangers(riskFactors) > 1 THEN "risky"
  ELSE IF score >= 70 THEN "safe"
  ELSE IF score >= 40 THEN "risky"
  ELSE "invalid"

\* determineRiskLevel with the first threshold exclusive
determineRiskLevel_strict(score) ==
  IF score > 70 THEN "Low"
  ELSE IF score >= 40 THEN "Medium"
  ELSE "High"

determineRiskLevel(score) ==
  IF score >= 70 THEN "Low"
  ELSE IF score >= 40 THEN "Medium"
  ELSE "High"

estimateDomainAge(data) ==
  LET domainAgeDays == Field(data, "email_domain", "domain_age")
      years == domainAgeDays.m \div 365000
  IN IF Truthy(domainAgeDays)
       THEN IF years >= 10 THEN "> 10 years"
            ELSE IF years >= 5 THEN "5-10 years"
            ELSE IF years >= 2 THEN "2-5 years"
            ELSE IF years >= 1 THEN "1-2 years"
            ELSE "< 1 year"
     ELSE IF IsTrue(Field(data, "email_quality", "is_free_email"))
       THEN "> 10 years"
     ELSE IF IsTrue(Field(data, "email_quality", "is_disposable"))
       THEN "< 1 month"
     ELSE "Unknown"

(***************************************************************************)
(* POST /api/verify-email, the synchronous stretch between the awaits      *)
(***************************************************************************)
\* the domain of the request's email with toLowerCase left out
EmailDomain_caseSensitive(email) ==
  LET parts == Split(email, "@")
  IN IF Len(parts) >= 2 THEN parts[2] ELSE << >>

\* email.split('@')[1]?.toLowerCase() || ''
EmailDomain(email) ==
  LET parts == Split(email, "@")
  IN IF Len(parts) >= 2 THEN ToLowerCase(parts[2]) ELSE << >>

isMajorProvider(email) == ArrayIncludes(MAJOR_EMAIL_PROVIDERS, EmailDomain(email))

smtpUnverifiableOf(email, data) ==
  /\ IsNull(Field(data, "email_deliverability", "is_smtp_valid"))
  /\ isMajorProvider(email)

\* the record with a score that also reads the stored history
VerificationData_shared(email, data) ==
  LET riskFactors == detectRiskFactors(data)
      score == Max(0, calculateScore(data, riskFactors, smtpUnverifiableOf(email, data))
                      - Len(history))
  IN [email |-> email,
      score |-> score,
      status |-> determineStatus(score, data, riskFactors),
      syntaxValid |-> IsTrue(Field(data, "email_deliverability", "is_format_valid")),
      mxRecords |-> IsTrue(Field(data, "email_deliverability", "is_mx_valid")),
      disposable |-> IsTrue(Field(data, "email_quality", "is_disposable")),
      smtpValid |-> IsTrue(Field(data, "email_deliverability", "is_smtp_valid")),
      spamTrap |-> IsTrue(Field(data, "email_quality", "is_catchall")),
      domainAge |-> estimateDomainAge(data),
      riskLevel |-> determineRiskLevel(score)]

\* the record handed to storage.createVerification
VerificationData(email, data) ==
  LET riskFactors == detectRiskFactors(data)
      score == calculateScore(data, riskFactors, smtpUnverifiableOf(email, data))
  IN [email |-> email,
      score |-> score,
      status |-> determineStatus(score, data, riskFactors),
      syntaxValid |-> IsTrue(Field(data, "email_deliverability", "is_format_valid")),
      mxRecords |-> IsTrue(Field(data, "email_deliverability", "is_mx_valid")),
      disposable |-> IsTrue(Field(data, "email_quality", "is_disposable")),
      smtpValid |-> IsTrue(Field(data, "email_deliverability", "is_smtp_valid")),
      spamTrap |-> IsTrue(Field(data, "email_quality", "is_catchall")),
      domainAge |-> estimateDomainAge(data),
      riskLevel |-> determineRiskLevel(score)]

\* data.email_breaches?.breached_domains?.map(...) || []
BreachesOf(data) ==
  LET list == Field(data, "email_breaches", "breached_domains")
  IN IF IsNullish(list) THEN << >>
     ELSE [i \in 1..Len(list.a) |->
             [domain |-> Get(list.a[i], "domain"),
              date |-> Get(list.a[i], "breach_date")]]

\* the response with the risk level brought in line with the status
ResultOf_reconciled(verificationData, riskFactors, smtpUnverifiable, data) ==
  [score |-> verificationData.score,
   status |-> verificationData.status,
   details |-> [syntax |-> verificationData.syntaxValid,
                mxRecords |-> verificationData.mxRecords,
                disposable |-> verificationData.disposable,
                smtp |-> verificationData.smtpValid,
                smtpUnverifiable |-> smtpUnverifiable,
                spamTrap |-> verificationData.spamTrap,
                domainAge |-> verificationData.domainAge],
   riskLevel |-> IF verificationData.status = "invalid" THEN "High"
                 ELSE verificationData.riskLevel,
   riskFactors |-> riskFactors,
   breaches |-> BreachesOf(data),
   providerName |-> Or(Field(data, "email_sender", "email_provider_name"), Null)]

\* the body of the 200 response
ResultOf(verificationData, riskFactors, smtpUnverifiable, data) ==
  [score |-> verificationData.score,
   status |-> verificationData.status,
   details |-> [syntax |-> verificationData.syntaxValid,
                mxRecords |-> verificationData.mxRecords,
                disposable |-> verificationData.disposable,
                smtp |-> verificationData.smtpValid,
                smtpUnverifiable |-> smtpUnverifiable,
                spamTrap |-> verificationData.spamTrap,
                domainAge |-> verificationData.domainAge],
   riskLevel |-> verificationData.riskLevel,
   riskFactors |-> riskFactors,
   breaches |-> BreachesOf(data),
   providerName |-> Or(Field(data, "email_sender", "email_provider_name"), Null)]

\* a TypeError before the write: a property of null is read (data.email_deliverability)
ThrowsBeforeWrite(data) == IsNullish(data)

\* data.email_breaches.breached_domains?.map: the section read without ?.
ThrowsAfterWrite_noOptionalChain(data) ==
  LET list == Field(data, "email_breaches", "breached_domains")
  IN \/ IsNullish(Get(data, "email_breaches"))
     \/ /\ ~IsNullish(list)
        /\ \/ list.t # "arr"
           \/ \E i \in 1..Len(list.a) : IsNullish(list.a[i])

\* a TypeError after the write: breached_domains is no array, or b.domain is
\* read of an element that is null
ThrowsAfterWrite(data) ==
  LET list == Field(data, "email_breaches", "breached_domains")
  IN /\ ~IsNullish(list)
     /\ \/ list.t # "arr"
        \/ \E i \in 1..Len(list.a) : IsNullish(list.a[i])

(***************************************************************************)
(* verifyEmailSchema: z.object({ email: z.string().email(...) })           *)
(***************************************************************************)
IsAlnum(c) == IsLetter(c) \/ IsDigit(c)

\* a label of the domain that is not the last: [A-Z0-9][A-Z0-9\-]*
IsDomainLabel(l) ==
  /\ l # << >>
  /\ IsAlnum(l[1])
  /\ \A i \in 2..Len(l) : IsAlnum(l[i]) \/ l[i] = "-"

\* zod's email pattern, case-insensitive:
\* ^(?!\.)(?!.*\.\.)([A-Z0-9_'+\-\.]*)[A-Z0-9_+-]@([A-Z0-9][A-Z0-9\-]*\.)+[A-Z]{2,}$
IsEmail(s) ==
  LET parts == Split(s, "@")
      local == parts[1]
      labels == Split(parts[2], ".")
      tld == labels[Len(labels)]
  IN /\ Len(parts) = 2
     /\ local # << >>
     /\ local[1] # "."
     /\ ~Includes(s, <<".", ".">>)
     /\ \A i \in 1..Len(local) :
          IsAlnum(local[i]) \/ local[i] \in {"_", "'", "+", "-", "."}
     /\ IsAlnum(local[Len(local)]) \/ local[Len(local)] \in {"_", "+", "-"}
     /\ Len(labels) >= 2
     /\ \A i \in 1..(Len(labels) - 1) : IsDomainLabel(labels[i])
     /\ Len(tld) >= 2
     /\ \A i \in 1..Len(tld) : IsLetter(tld[i])

\* the schema without the email format: z.object({ email: z.string() })
ParseOk_anyString(body) ==
  /\ body.t = "obj"
  /\ Get(body, "email").t = "str"

\* verifyEmailSchema.parse(req.body) succeeds
ParseOk(body) ==
  /\ body.t = "obj"
  /\ Get(body, "email").t = "str"
  /\ IsEmail(Get(body, "email").s)

\* fromError(error).toString() for the ZodError of a body that fails to parse
ValidationMessage(body) ==
  IF body.t # "obj" THEN "Validation error: Required"
  ELSE IF Get(body, "email") = Undefined
    THEN "Validation error: Required at \"email\""
  ELSE IF Get(body, "email").t # "str"
    THEN "Validation error: Expected string at \"email\""
  ELSE "Validation error: Invalid email format at \"email\""

(***************************************************************************)
(* Inputs: emails, request bodies and reputation payloads                  *)
(***************************************************************************)
\* "user@tempmail.com"
TempmailAddress ==
  <<"u","s","e","r","@","t","e","m","p","m","a","i","l",".","c","o","m">>

\* "user@gmail.com"
GmailAddress == <<"u","s","e","r","@","g","m","a","i","l",".","c","o","m">>

\* "Test1@GMail.COM"
MixedCaseGmailAddress ==
  <<"T","e","s","t","1","@","G","M","a","i","l",".","C","O","M">>

\* "info@corp.io"
CorpAddress == <<"i","n","f","o","@","c","o","r","p",".","i","o">>

\* "user42@my-burner.org"
BurnerAddress ==
  <<"u","s","e","r","4","2","@","m","y","-","b","u","r","n","e","r",".","o","r","g">>

\* "not-an-email"
NoAtSign == <<"n","o","t","-","a","n","-","e","m","a","i","l">>

Deliv(fmt, mx, smtp, status) ==
  Obj([is_format_valid |-> fmt, is_mx_valid |-> mx, is_smtp_valid |-> smtp,
       status |-> status])

Quality(score, disposable, catchall, role, free, suspicious, spf, dmarc) ==
  Obj([score |-> score, is_disposable |-> disposable, is_catchall |-> catchall,
       is_role |-> role, is_free_email |-> free,
       is_username_suspicious |-> suspicious, is_spf_strict |-> spf,
       is_dmarc_enforced |-> dmarc])

Risk(address, domain) ==
  Obj([address_risk_status |-> address, domain_risk_status |-> domain])

Breaches(total, list) ==
  Obj([total_breaches |-> total, breached_domains |-> list])

DomainInfo(age) == Obj([domain_age |-> age])

Sender(name) == Obj([email_provider_name |-> name])

Payload(address, deliv, quality, risk, breaches, domain, sender) ==
  Obj([email_address |-> address, email_deliverability |-> deliv,
       email_quality |-> quality, email_risk |-> risk,
       email_breaches |-> breaches, email_domain |-> domain,
       email_sender |-> sender])

\* the payload with every optional field absent: {}
EmptyPayload ==
  Payload(Undefined, Undefined, Undefined, Undefined, Undefined, Undefined,
          Undefined)

Flag == {Undefined, Null, True, False}

Flag3 == {Undefined, True, False}

StatusValues ==
  {Undefined, Null, Lit("deliverable"), Lit("undeliverable"), Lit("unknown")}

TierValues == {Undefined, Null, Lit("low"), Lit("medium"), Lit("high")}

\* quality scores in thousandths; none is an odd multiple of 0.005, where the
\* binary product quality * 100 decides the rounding
QualityMillis == {0, 299, 300, 394, 396, 694, 696, 900, 1000}

ScoreValues == {Undefined, Null} \cup {Num(m) : m \in QualityMillis}

\* the largest breach count of a payload
MaxBreaches == 15

BreachCounts == {Undefined, Null} \cup {Whole(n) : n \in 0..MaxBreaches}

\* domain ages in days, around the bucket boundaries
DomainAgeDays == {0, 1, 364, 365, 729, 730, 1824, 1825, 3649, 3650, 5000}

DomainAges == {Undefined, Null} \cup {Whole(d) : d \in DomainAgeDays}

BreachEntry(domain, date) == Obj([domain |-> domain, breach_date |-> date])

BreachLists ==
  {Undefined, Null, Arr(<< >>),
   Arr(<<BreachEntry(Str(<<"a",".","c","o","m">>), Str(<<"2","0","1","9">>))>>),
   Arr(<<BreachEntry(Str(<<"a",".","c","o","m">>), Null),
         BreachEntry(Undefined, Str(<<"2","0","2","1">>))>>)}

ProviderNames == {Undefined, Str(<< >>), Str(<<"G","o","o","g","l","e">>)}

CleanDeliv == Deliv(True, True, True, Lit("deliverable"))

WorstDeliv == Deliv(False, False, False, Lit("undeliverable"))

WorstQuality(score) == Quality(score, True, True, True, True, True, False, True)

\* deliverability varies in full; the request email decides smtpUnverifiable
DelivPayloads ==
  { Payload(a, d, q, Undefined, Undefined, Undefined, Undefined) :
      a \in {Undefined, Str(TempmailAddress)},
      d \in {Undefined, Null}
            \cup { Deliv(f, m, s, st) : f \in Flag, m \in Flag, s \in Flag,
                                        st \in StatusValues },
      q \in {Undefined,
             Quality(Num(900), Undefined, Undefined, Undefined, Undefined,
                     Undefined, Undefined, Undefined)} }

\* the quality score and the flags that weigh on the score
QualityPayloads ==
  { Payload(Str(CorpAddress), d, Quality(s, di, c, ro, fr, Undefined, Undefined, Undefined),
            r, Undefined, Undefined, Undefined) :
      d \in {Undefined, CleanDeliv},
      s \in ScoreValues, di \in Flag3, c \in Flag3, ro \in Flag3,
      fr \in {Undefined, True},
      r \in {Undefined, Risk(Lit("medium"), Undefined)} }

\* the flags that only inform
InfoPayloads ==
  { Payload(a, CleanDeliv, Quality(s, Undefined, Undefined, Undefined, fr, us, spf, dm),
            Undefined, Undefined, Undefined, Sender(p)) :
      a \in {Undefined, Null, Str(<< >>), Str(NoAtSign), Str(CorpAddress),
             Str(MixedCaseGmailAddress), Str(BurnerAddress)},
      s \in {Undefined, Num(900)}, fr \in {Undefined, True},
      us \in {Undefined, True}, spf \in Flag, dm \in Flag3, p \in ProviderNames }

\* the risk tiers and what the high risk explanation reads
RiskPayloads ==
  { Payload(Str(CorpAddress), Deliv(True, True, True, st),
            Quality(s, Undefined, c, Undefined, fr, Undefined, Undefined, Undefined),
            r, Undefined, Undefined, Undefined) :
      st \in {Undefined, Lit("unknown"), Lit("deliverable")},
      s \in {Undefined, Null, Num(299), Num(300)},
      c \in {Undefined, True}, fr \in {Undefined, True},
      r \in {Undefined, Null}
            \cup { Risk(t, dr) : t \in TierValues,
                                 dr \in {Undefined, Lit("low"), Lit("high")} } }

\* breach counts and lists
BreachPayloads ==
  { Payload(Str(CorpAddress), d, q, Undefined, b, Undefined, Undefined) :
      d \in {Undefined, CleanDeliv},
      q \in {Undefined, WorstQuality(Num(1000))},
      b \in {Undefined, Null}
            \cup { Breaches(n, l) : n \in BreachCounts, l \in BreachLists } }

\* domain ages and the flags the fallback reads
AgePayloads ==
  { Payload(Str(CorpAddress), Undefined,
            Quality(Undefined, di, Undefined, Undefined, fr, Undefined, Undefined, Undefined),
            Undefined, Undefined, dom, Undefined) :
      di \in Flag3, fr \in Flag3,
      dom \in {Undefined, Null} \cup { DomainInfo(age) : age \in DomainAges } }

\* JSON null, a breach list holding null, every section null, every field
\* null, and every penalty at once
ExtremePayloads ==
  { Null,
    Payload(Undefined, Undefined, Undefined, Undefined,
            Breaches(Whole(1), Arr(<<Null>>)), Undefined, Undefined),
    Payload(Null, Null, Null, Null, Null, Null, Null),
    Payload(Null, Deliv(Null, Null, Null, Null),
            Quality(Null, Null, Null, Null, Null, Null, Null, Null),
            Risk(Null, Null), Breaches(Null, Null), DomainInfo(Null),
            Sender(Null)) }
  \cup
  { Payload(Str(TempmailAddress), WorstDeliv, WorstQuality(s), Risk(Lit("high"), Lit("low")),
            Breaches(Whole(MaxBreaches), Arr(<< >>)), DomainInfo(Whole(1)),
            Sender(Undefined)) : s \in ScoreValues }

\* the emails of the requests
Emails == {TempmailAddress, MixedCaseGmailAddress, CorpAddress}

\* the inputs of the engine: the request's email and the payload
EngineInputs ==
  (Emails \X (DelivPayloads \cup ExtremePayloads))
  \cup ({CorpAddress} \X (QualityPayloads \cup InfoPayloads \cup RiskPayloads
                           \cup BreachPayloads \cup AgePayloads))

\* the request bodies: two that fail to parse and one per well-formed email
ServerEmails == {TempmailAddress, GmailAddress}

Bodies ==
  {Obj([other |-> Null]), Obj([email |-> Str(NoAtSign)])}
  \cup { Obj([email |-> Str(e)]) : e \in ServerEmails }

\* what JSON.parse makes of the bodies the reputation service answers with
WirePayloads ==
  { EmptyPayload,
    Null,
    Payload(Str(TempmailAddress), CleanDeliv,
            Quality(Num(900), Undefined, Undefined, Undefined, Undefined,
                    Undefined, Undefined, Undefined),
            Undefined, Undefined, Undefined, Undefined),
    Payload(Str(GmailAddress), Deliv(True, True, Null, Lit("deliverable")),
            Undefined, Undefined, Breaches(Whole(1), Arr(<<Null>>)), Undefined,
            Undefined) }

\* the values of process.env.ABSTRACTAPI_KEY
ApiKeys == {Undefined, Str(<< >>), Str(<<"k">>)}

\* the number of verify requests
NumRequests == 2

Requests == 1..NumRequests

None == [none |-> TRUE]

\* a request that has not arrived. fetches, engine, writes and responses count
\* the calls of fetch, of the engine, of storage.createVerification and of
\* res.json on behalf of the request; upstream tells how the call of the
\* reputation service ended. riskFactors, smtpUnverifiable and verificationData
\* are the handler's locals of these names, which live across the await.
NewRequest ==
  [pc |-> "idle", body |-> Undefined, email |-> << >>, ok |-> FALSE,
   data |-> Undefined, riskFactors |-> << >>, smtpUnverifiable |-> FALSE,
   verificationData |-> None, status |-> 0, error |-> "",
   result |-> None, fetches |-> 0, engine |-> 0, writes |-> 0, responses |-> 0,
   upstream |-> "none"]

\* res.status(code).json({ error })
SendError(r, code, message) ==
  [r EXCEPT !.pc = "done", !.status = code, !.error = message,
            !.responses = @ + 1]

\* res.json(result)
SendResult(r, result) ==
  [r EXCEPT !.pc = "done", !.status = 200, !.result = result,
            !.responses = @ + 1]

\* the engine has not run
NoCall ==
  [stage |-> "idle", email |-> << >>, data |-> Undefined, riskFactors |-> << >>,
   smtpUnverifiable |-> FALSE, raw |-> 0, verificationData |-> None,
   result |-> None]

\* the number of submissions of the form that are followed
NumSubmissions == 2

Submissions == 1..NumSubmissions

\* a submission that has not started: pc is where onSubmit stands, outcome
\* tells how it ended
NoSubmission == [pc |-> "idle", outcome |-> "none"]

\* useState(false), useState(null), useState(0). intervals holds the
\* submissions whose setInterval timer is live, toast the title of the last
\* toast.
HomeStart ==
  [isScanning |-> FALSE, result |-> Null, progress |-> 0, intervals |-> {},
   toast |-> "none", run |-> [s \in Submissions |-> NoSubmission]]

Init ==
  /\ apiKey \in ApiKeys
  /\ req = [r \in Requests |-> NewRequest]
  /\ history = << >>
  /\ call = NoCall
  /\ listing = None
  /\ home = HomeStart

(***************************************************************************)
(* POST /api/verify-email                                                  *)
(***************************************************************************)
\* apiKey !== undefined in place of !apiKey
KeyConfigured_definedOnly(key) == key # Undefined

\* !apiKey is false
KeyConfigured(key) == Truthy(key)

\* the request arrives: parse, read the key, call fetch (up to the first await)
Post(r) ==
  /\ req[r].pc = "idle"
  /\ \E body \in Bodies :
       LET arrived == [req[r] EXCEPT !.body = body] IN
       req' = [req EXCEPT ![r] =
         IF ~ParseOk(body)
           THEN SendError(arrived, 400, ValidationMessage(body))
         ELSE IF ~KeyConfigured(apiKey)
           THEN SendError([arrived EXCEPT !.email = Get(body, "email").s], 500,
                          "Email verification service not configured")
         ELSE [arrived EXCEPT !.email = Get(body, "email").s,
                              !.fetches = @ + 1, !.pc = "fetching"]]
  /\ UNCHANGED <<home, apiKey, history, call, listing>>

\* fetch resolves with a response, whose text is then awaited
FetchResolves(r) ==
  /\ req[r].pc = "fetching"
  /\ \E ok \in BOOLEAN :
       req' = [req EXCEPT ![r] = [@ EXCEPT !.ok = ok, !.pc = "reading"]]
  /\ UNCHANGED <<home, apiKey, history, call, listing>>

\* the handler without its outer catch: the rejection ends the handler
FetchRejects_uncaught(r) ==
  /\ req[r].pc \in {"fetching", "reading"}
  /\ req' = [req EXCEPT ![r] = [@ EXCEPT !.upstream = "network",
                                         !.pc = "rejected"]]
  /\ UNCHANGED <<home, apiKey, history, call, listing>>

\* fetch or response.text() rejects: the outer catch answers
FetchRejects(r) ==
  /\ req[r].pc \in {"fetching", "reading"}
  /\ req' = [req EXCEPT ![r] =
       SendError([@ EXCEPT !.upstream = "network"], 500, "Failed to verify email")]
  /\ UNCHANGED <<home, apiKey, history, call, listing>>

\* the handler without its check of response.ok
TextResolves_ignoresStatus(r) ==
  /\ req[r].pc = "reading"
  /\ \E parses \in BOOLEAN, data \in WirePayloads :
       req' = [req EXCEPT ![r] =
         IF ~parses
           THEN SendError([@ EXCEPT !.upstream =
                             IF req[r].ok THEN "unparseable" ELSE "non2xx"],
                          500, "Invalid response from verification service")
         ELSE IF ThrowsBeforeWrite(data)
           THEN SendError([@ EXCEPT !.data = data, !.upstream =
                             IF req[r].ok THEN "json" ELSE "non2xx"],
                          500, "Failed to verify email")
         ELSE [@ EXCEPT !.data = data,
                        !.upstream = IF req[r].ok THEN "json" ELSE "non2xx",
                        !.riskFactors = detectRiskFactors(data),
                        !.smtpUnverifiable = smtpUnverifiableOf(req[r].email, data),
                        !.verificationData = VerificationData(req[r].email, data),
                        !.engine = @ + 1, !.writes = @ + 1, !.pc = "writing"]]
  /\ UNCHANGED <<home, apiKey, history, call, listing>>

\* the text arrives: the status check, JSON.parse, the engine, and the call of
\* storage.createVerification (up to its await)
TextResolves(r) ==
  /\ req[r].pc = "reading"
  /\ \E parses \in BOOLEAN, data \in WirePayloads :
       req' = [req EXCEPT ![r] =
         IF ~req[r].ok
           THEN SendError([@ EXCEPT !.upstream = "non2xx"], 500,
                          "Email verification service error")
         ELSE IF ~parses
           THEN SendError([@ EXCEPT !.upstream = "unparseable"], 500,
                          "Invalid response from verification service")
         ELSE IF ThrowsBeforeWrite(data)
           THEN SendError([@ EXCEPT !.data = data, !.upstream = "json"], 500,
                          "Failed to verify email")
         ELSE [@ EXCEPT !.data = data, !.upstream = "json",
                        !.riskFactors = detectRiskFactors(data),
                        !.smtpUnverifiable = smtpUnverifiableOf(req[r].email, data),
                        !.verificationData = VerificationData(req[r].email, data),
                        !.engine = @ + 1, !.writes = @ + 1, !.pc = "writing"]]
  /\ UNCHANGED <<home, apiKey, history, call, listing>>

\* the largest created_at of the table, 0 when it is empty
RECURSIVE Latest(_)
Latest(rows) ==
  IF rows = << >> THEN 0
  ELSE Max(rows[Len(rows)].createdAt, Latest(SubSeq(rows, 1, Len(rows) - 1)))

\* created_at defaults to now(): the clock never runs backwards, and two rows
\* may be stamped within the same tick
Timestamps(rows) ==
  IF rows = << >> THEN {1} ELSE {Latest(rows), Latest(rows) + 1}

\* the record kept in a variable the requests share: the row stored is the
\* record of any request that awaits its write
InsertCommits_sharedRecord(r) ==
  /\ req[r].pc = "writing"
  /\ \E now \in Timestamps(history) :
       \E other \in {o \in Requests : req[o].pc = "writing"} :
         history' = Append(history,
           [id |-> Len(history) + 1, by |-> r, createdAt |-> now,
            row |-> req[other].verificationData])
  /\ req' = [req EXCEPT ![r] = [@ EXCEPT !.pc = "written"]]
  /\ UNCHANGED <<home, apiKey, call, listing>>

\* an upsert on the email in place of the insert
InsertCommits_upsert(r) ==
  /\ req[r].pc = "writing"
  /\ \E now \in Timestamps(history) :
       LET new == [id |-> Len(history) + 1, by |-> r, createdAt |-> now,
                   row |-> req[r].verificationData]
           same == {i \in 1..Len(history) :
                      history[i].row.email = new.row.email}
       IN history' =
            IF same = {} THEN Append(history, new)
            ELSE [i \in 1..Len(history) |->
                    IF i \in same THEN [new EXCEPT !.id = i] ELSE history[i]]
  /\ req' = [req EXCEPT ![r] = [@ EXCEPT !.pc = "written"]]
  /\ UNCHANGED <<home, apiKey, call, listing>>

\* db.insert(verificationHistory).values(verification) stores the row; by is
\* the request that stored it
InsertCommits(r) ==
  /\ req[r].pc = "writing"
  /\ \E now \in Timestamps(history) :
       history' = Append(history,
         [id |-> Len(history) + 1, by |-> r, createdAt |-> now,
          row |-> req[r].verificationData])
  /\ req' = [req EXCEPT ![r] = [@ EXCEPT !.pc = "written"]]
  /\ UNCHANGED <<home, apiKey, call, listing>>

\* the insert fails: createVerification rejects
InsertFails(r) ==
  /\ req[r].pc = "writing"
  /\ req' = [req EXCEPT ![r] = [@ EXCEPT !.pc = "writeFailed"]]
  /\ UNCHANGED <<home, apiKey, history, call, listing>>

\* storage.createVerification called without await: the handler answers while
\* the write is under way
Respond_withoutAwait(r) ==
  /\ req[r].pc \in {"writing", "written", "writeFailed"}
  /\ req[r].responses = 0
  /\ req' = [req EXCEPT ![r] =
       LET sent == IF ThrowsAfterWrite(req[r].data)
                     THEN SendError(@, 500, "Failed to verify email")
                     ELSE SendResult(@, ResultOf(req[r].verificationData,
                                                 req[r].riskFactors,
                                                 req[r].smtpUnverifiable,
                                                 req[r].data))
       IN IF req[r].pc = "writing" THEN [sent EXCEPT !.pc = "writing"]
          ELSE sent]
  /\ UNCHANGED <<home, apiKey, history, call, listing>>

\* the rejection of the write reaches the outer catch
Respond_failsOnWriteError(r) ==
  /\ req[r].pc \in {"written", "writeFailed"}
  /\ req' = [req EXCEPT ![r] =
       IF req[r].pc = "writeFailed" \/ ThrowsAfterWrite(req[r].data)
         THEN SendError(@, 500, "Failed to verify email")
         ELSE SendResult(@, ResultOf(req[r].verificationData,
                                     req[r].riskFactors,
                                     req[r].smtpUnverifiable, req[r].data))]
  /\ UNCHANGED <<home, apiKey, history, call, listing>>

\* the handler resumes after the write (the rejection is caught and logged),
\* maps the breaches, builds the result and answers
Respond(r) ==
  /\ req[r].pc \in {"written", "writeFailed"}
  /\ req' = [req EXCEPT ![r] =
       IF ThrowsAfterWrite(req[r].data)
         THEN SendError(@, 500, "Failed to verify email")
         ELSE SendResult(@, ResultOf(req[r].verificationData,
                                     req[r].riskFactors,
                                     req[r].smtpUnverifiable, req[r].data))]
  /\ UNCHANGED <<home, apiKey, history, call, listing>>

Next ==
  \E r \in Requests :
    \/ Post(r)
    \/ FetchResolves(r)
    \/ FetchRejects(r)
    \/ TextResolves(r)
    \/ InsertCommits(r)
    \/ InsertFails(r)
    \/ Respond(r)

Spec == Init /\ [][Next]_vars

(***************************************************************************)
(* GET /api/verification-history                                           *)
(***************************************************************************)
\* parseInt: an optional sign and the longest prefix of digits
ParseInt(v) ==
  LET s == JSString(v)
      negative == s # << >> /\ Head(s) = "-"
      body == IF negative THEN Tail(s) ELSE s
      n == DigitRun(body)
      value == DigitsValue(SubSeq(body, 1, n))
  IN IF n = 0 THEN NaN ELSE Whole(IF negative THEN 0 - value ELSE value)

\* req.query.limit ? parseInt(req.query.limit) : 10
LimitOf(query) == IF Truthy(query) THEN ParseInt(query) ELSE Whole(10)

\* the answers of ORDER BY created_at DESC LIMIT n over the rows numbered in
\* left: the newest row first; rows of one created_at come in any order
RECURSIVE OrderedDesc(_, _, _)
OrderedDesc(rows, left, n) ==
  IF n = 0 \/ left = {} THEN {<< >>}
  ELSE LET newest == {i \in left :
                        \A j \in left : rows[j].createdAt <= rows[i].createdAt}
       IN UNION { { <<rows[i]>> \o rest :
                      rest \in OrderedDesc(rows, left \ {i}, n - 1) } :
                  i \in newest }

\* the query without its orderBy: the first rows of the table
getRecentVerifications_noOrder(rows, limit) ==
  {SubSeq(rows, 1, Min(limit.m \div 1000, Len(rows)))}

\* db.select().from(verificationHistory).orderBy(desc(createdAt)).limit(limit)
getRecentVerifications(rows, limit) ==
  OrderedDesc(rows, 1..Len(rows), limit.m \div 1000)

\* the values of req.query.limit: absent, empty, and counts
LimitQueries == {Undefined, Str(<< >>), Str(<<"1">>), Str(<<"2">>)}

\* the handler: the limit, the query, and the answer; the query may fail.
\* seen counts the rows the table held when it was queried.
GetHistory ==
  /\ \E query \in LimitQueries :
       \/ \E rows \in getRecentVerifications(history, LimitOf(query)) :
            listing' = [query |-> query, status |-> 200, rows |-> rows,
                        error |-> "", seen |-> Len(history)]
       \/ listing' = [query |-> query, status |-> 500, rows |-> << >>,
                      error |-> "Failed to fetch history",
                      seen |-> Len(history)]
  /\ UNCHANGED <<home, apiKey, req, history, call>>

\* the number of rows the table holds when the server starts
EarlierRowCount == 10

\* rows stored by earlier runs of the server, one tick apart
EarlierRows ==
  [i \in 1..EarlierRowCount |->
     [id |-> i, by |-> 0, createdAt |-> i,
      row |-> VerificationData(GmailAddress, EmptyPayload)]]

\* the server starts on an empty table or on the table of earlier runs
HistoryInit ==
  /\ apiKey \in ApiKeys
  /\ req = [r \in Requests |-> NewRequest]
  /\ history \in {<< >>, EarlierRows}
  /\ call = NoCall
  /\ listing = None
  /\ home = HomeStart

\* the number of verify requests that run beside the history requests
NumWriters == 1

Writers == 1..NumWriters

HistoryNext ==
  \/ \E r \in Writers :
       \/ Post(r)
       \/ FetchResolves(r)
       \/ FetchRejects(r)
       \/ TextResolves(r)
       \/ InsertCommits(r)
       \/ InsertFails(r)
       \/ Respond(r)
  \/ GetHistory

HistorySpec == HistoryInit /\ [][HistoryNext]_vars

(***************************************************************************)
(* The verify handler when every promise it awaits settles                 *)
(***************************************************************************)
\* the continuations of the handler of request r: each runs once the promise
\* it awaits has settled
Continue(r) ==
  \/ FetchResolves(r)
  \/ FetchRejects(r)
  \/ TextResolves(r)
  \/ InsertCommits(r)
  \/ InsertFails(r)
  \/ Respond(r)

VerifyNext == \E r \in Writers : Post(r) \/ Continue(r)

\* fetch, response.text() and the insert settle, and the event loop runs the
\* continuation that waits for them; a request need not arrive
Settles == \A r \in Writers : WF_vars(Continue(r))

SettlingSpec == HistoryInit /\ [][VerifyNext]_vars /\ Settles

(***************************************************************************)
(* The engine on its own: one run over each input                          *)
(***************************************************************************)
EngineInit ==
  /\ apiKey = Str(<<"k">>)
  /\ req = [r \in Requests |-> NewRequest]
  /\ history = << >>
  /\ listing = None
  /\ home = HomeStart
  /\ \E in \in EngineInputs :
       call = [NoCall EXCEPT !.stage = "input", !.email = in[1], !.data = in[2]]

\* lines 48-97 of the handler, without the write; a TypeError ends the run
RunEngine ==
  /\ call.stage = "input"
  /\ LET riskFactors == detectRiskFactors(call.data)
         smtpUnverifiable == smtpUnverifiableOf(call.email, call.data)
         verificationData == VerificationData(call.email, call.data)
     IN call' =
          IF ThrowsBeforeWrite(call.data) \/ ThrowsAfterWrite(call.data)
            THEN [call EXCEPT !.stage = "threw"]
            ELSE [call EXCEPT
                    !.stage = "done",
                    !.riskFactors = riskFactors,
                    !.smtpUnverifiable = smtpUnverifiable,
                    !.raw = RawScore(call.data, riskFactors, smtpUnverifiable),
                    !.verificationData = verificationData,
                    !.result = ResultOf(verificationData, riskFactors,
                                         smtpUnverifiable, call.data)]
  /\ UNCHANGED <<home, apiKey, req, history, listing>>

EngineNext == RunEngine

EngineSpec == EngineInit /\ [][EngineNext]_vars

(***************************************************************************)
(* The Home page: onSubmit                                                 *)
(***************************************************************************)
\* Math.random() * 15, in whole numbers
Increments == {0, 7, 14}

\* the bodies response.json() yields
ScanResults == {Null, Lit("scanA"), Lit("scanB")}

\* onSubmit with setResult(null) left out
onSubmit_keepsResult(s) ==
  /\ ~home.isScanning
  /\ home.run[s].pc \in {"idle", "settled"}
  /\ home' = [home EXCEPT !.isScanning = TRUE, !.progress = 0,
                          !.intervals = @ \cup {s},
                          !.run[s] = [pc |-> "fetching", outcome |-> "none"]]
  /\ UNCHANGED <<apiKey, req, history, call, listing>>

\* the form is submitted (its input and its button are disabled while
\* isScanning): the state is reset, the timer started and fetch called
onSubmit(s) ==
  /\ ~home.isScanning
  /\ home.run[s].pc \in {"idle", "settled"}
  /\ home' = [home EXCEPT !.isScanning = TRUE, !.result = Null, !.progress = 0,
                          !.intervals = @ \cup {s},
                          !.run[s] = [pc |-> "fetching", outcome |-> "none"]]
  /\ UNCHANGED <<apiKey, req, history, call, listing>>

\* the timer of submission s fires: progress moves on below 90
IntervalFires(s) ==
  /\ s \in home.intervals
  /\ \E step \in Increments :
       home' = [home EXCEPT !.progress = IF @ >= 90 THEN @ ELSE @ + step]
  /\ UNCHANGED <<apiKey, req, history, call, listing>>

\* fetch resolves: clearInterval, setProgress(100), and response.json() is
\* awaited, for the error when the response is not ok
HomeFetchResolves(s) ==
  /\ home.run[s].pc = "fetching"
  /\ \E ok \in BOOLEAN :
       home' = [home EXCEPT !.intervals = @ \ {s}, !.progress = 100,
                            !.run[s].pc = IF ok THEN "readingBody"
                                          ELSE "readingError"]
  /\ UNCHANGED <<apiKey, req, history, call, listing>>

\* catch and finally: clearInterval, setIsScanning(false), the toast
Failed(h, s, outcome) ==
  [h EXCEPT !.intervals = @ \ {s}, !.isScanning = FALSE,
            !.toast = "Verification Failed",
            !.run[s] = [pc |-> "settled", outcome |-> outcome]]

\* fetch rejects: a network failure
HomeFetchRejects(s) ==
  /\ home.run[s].pc = "fetching"
  /\ home' = Failed(home, s, "networkFailure")
  /\ UNCHANGED <<apiKey, req, history, call, listing>>

\* the body of a response that is not ok arrives, or fails to parse: an Error
\* is thrown either way
ErrorBodySettles(s) ==
  /\ home.run[s].pc = "readingError"
  /\ home' = Failed(home, s, "errorResponse")
  /\ UNCHANGED <<apiKey, req, history, call, listing>>

\* the body of an ok response fails to parse, or parses: setResult(data), the
\* toast, and finally setIsScanning(false)
BodySettles(s) ==
  /\ home.run[s].pc = "readingBody"
  /\ \/ home' = Failed(home, s, "unparseable")
     \/ \E data \in ScanResults :
          home' = [home EXCEPT !.result = data, !.toast = "Scan Complete",
                               !.isScanning = FALSE,
                               !.run[s] = [pc |-> "settled", outcome |-> "ok"]]
  /\ UNCHANGED <<apiKey, req, history, call, listing>>

HomeInit ==
  /\ apiKey = Str(<<"k">>)
  /\ req = [r \in Requests |-> NewRequest]
  /\ history = << >>
  /\ call = NoCall
  /\ listing = None
  /\ home = HomeStart

HomeNext ==
  \E s \in Submissions :
    \/ onSubmit(s)
    \/ IntervalFires(s)
    \/ HomeFetchResolves(s)
    \/ HomeFetchRejects(s)
    \/ ErrorBodySettles(s)
    \/ BodySettles(s)

HomeSpec == HomeInit /\ [][HomeNext]_vars

(***************************************************************************)
(* Properties                                                              *)
(***************************************************************************)
Done == call.stage = "done"

\* factors holds a factor of this severity and label
HasFactor(factors, type, label) ==
  \E i \in 1..Len(factors) : factors[i].type = type /\ factors[i].label = label

\* the pre-clamp score of a verification of email with payload data
RawOn(email, data) ==
  RawScore(data, detectRiskFactors(data), smtpUnverifiableOf(email, data))

\* data with its breach count replaced
WithBreachCount(data, n) ==
  Obj([data.f EXCEPT !.email_breaches = Obj([@.f EXCEPT !.total_breaches = n])])

\* data with its SMTP validity replaced
WithSmtp(data, v) ==
  Obj([data.f EXCEPT !.email_deliverability = Obj([@.f EXCEPT !.is_smtp_valid = v])])

Undeliverable(data) ==
  IsLit(Field(data, "email_deliverability", "status"), "undeliverable")

\* C1: for every payload and the factor list derived from it, the score
\* returned is an integer between 0 and 100; a pre-clamp value below 0 gives
\* 0, and the response carries the same score.
C1_ScoreInRange ==
  Done =>
    /\ call.verificationData.score \in 0..100
    /\ call.raw < 0 => call.verificationData.score = 0
    /\ call.raw \in 0..100 => call.verificationData.score = call.raw
    /\ call.result.score = call.verificationData.score

\* C1 witness: every penalty stacks, the pre-clamp value is far below 0
C1_Witness ==
  /\ Done
  /\ call.raw <= -200
  /\ call.verificationData.score = 0

\* C2: when the deliverability status is "undeliverable" the status is
\* "invalid", whatever the score and the factors.
C2_UndeliverableInvalid ==
  (Done /\ Undeliverable(call.data)) => call.result.status = "invalid"

\* C2 witness: undeliverable with a danger factor in the list
C2_Witness ==
  /\ Done
  /\ Undeliverable(call.data)
  /\ HasFactor(call.riskFactors, "danger", "Suspicious Domain")
  /\ call.result.status = "invalid"

\* C3 as stated: a verification of user@tempmail.com yields the danger factor
\* "Suspicious Domain" and status "risky", whatever the payload holds.
C3_Original ==
  (Done /\ call.email = TempmailAddress) =>
    /\ HasFactor(call.result.riskFactors, "danger", "Suspicious Domain")
    /\ call.result.status = "risky"

\* C3 amended: when the payload's email_address is user@tempmail.com the
\* factor list holds the danger factor "Suspicious Domain", and the status is
\* "risky" unless the deliverability status is "undeliverable", where it is
\* "invalid".
C3_Amended ==
  (Done /\ Get(call.data, "email_address") = Str(TempmailAddress)) =>
    /\ HasFactor(call.result.riskFactors, "danger", "Suspicious Domain")
    /\ call.result.status =
         IF Undeliverable(call.data) THEN "invalid" ELSE "risky"

\* C3 witness: the payload echoes user@tempmail.com, the quality score alone
\* would give "safe", and the status is "risky"
C3_Witness ==
  /\ Done
  /\ call.email = TempmailAddress
  /\ Get(call.data, "email_address") = Str(TempmailAddress)
  /\ Field(call.data, "email_quality", "score") = Num(900)
  /\ ~Undeliverable(call.data)
  /\ call.result.status = "risky"

BreachCountIs15(data) ==
  Field(data, "email_breaches", "total_breaches") = Whole(15)

\* C4 as stated: with breach count 15 the pre-clamp score is exactly 50 lower
\* than for the same payload with breach count 0.
C4_Original ==
  (Done /\ BreachCountIs15(call.data)) =>
    call.raw = RawOn(call.email, WithBreachCount(call.data, Whole(0))) - 50

\* C4 amended: with breach count 15 the "Data Breaches" danger factor lowers
\* the pre-clamp score by exactly 30 compared with the same payload with
\* breach count 0.
C4_Amended ==
  (Done /\ BreachCountIs15(call.data)) =>
    /\ HasFactor(call.riskFactors, "danger", "Data Breaches")
    /\ call.raw = RawOn(call.email, WithBreachCount(call.data, Whole(0))) - 30

\* C4 witness: breach count 15 and the danger factor in the list
C4_Witness ==
  /\ Done
  /\ BreachCountIs15(call.data)
  /\ HasFactor(call.riskFactors, "danger", "Data Breaches")
  /\ ~HasFactor(detectRiskFactors(WithBreachCount(call.data, Whole(0))),
                "danger", "Data Breaches")

\* the request emails whose domain, in lower case, is a major provider
\* (GMail.COM is gmail.com)
MajorProviderEmails == {MixedCaseGmailAddress}

\* the case of C5: a major provider and an SMTP validity of null
SmtpNullOnMajor ==
  /\ Done
  /\ call.email \in MajorProviderEmails
  /\ IsNull(Field(call.data, "email_deliverability", "is_smtp_valid"))

HasQualityScore(data) ==
  ~IsNullish(Field(data, "email_quality", "score"))

\* C5 as stated: on a major provider with SMTP validity null, smtpUnverifiable
\* is true, the pre-clamp score is 10 above that of the same payload on a
\* domain that is not a major provider, and no SMTP penalty applies, with or
\* without a quality score.
C5_Original ==
  SmtpNullOnMajor =>
    /\ call.result.details.smtpUnverifiable = TRUE
    /\ call.raw = RawOn(CorpAddress, call.data) + 10
    /\ call.raw = RawOn(CorpAddress, WithSmtp(call.data, Undefined)) + 10

\* C5 amended: on a major provider with SMTP validity null, smtpUnverifiable
\* is true and no SMTP penalty applies; the pre-clamp score is 10 above that
\* of the same payload on another domain when the payload carries no quality
\* score, and equal to it when the payload carries one.
C5_Amended ==
  SmtpNullOnMajor =>
    LET bonus == IF HasQualityScore(call.data) THEN 0 ELSE 10 IN
    /\ call.result.details.smtpUnverifiable = TRUE
    /\ call.raw = RawOn(CorpAddress, call.data) + bonus
    /\ call.raw = RawOn(CorpAddress, WithSmtp(call.data, Undefined)) + bonus

\* C5 witness: a mixed-case major provider, SMTP null, no quality score
C5_Witness ==
  /\ SmtpNullOnMajor
  /\ call.email = MixedCaseGmailAddress
  /\ ~HasQualityScore(call.data)
  /\ call.result.details.smtpUnverifiable = TRUE
  /\ call.raw = RawOn(CorpAddress, call.data) + 10

\* the step function of C6
StepLevel(s) ==
  IF s >= 70 THEN "Low" ELSE IF s >= 40 THEN "Medium" ELSE "High"

LevelRank(level) ==
  IF level = "Low" THEN 2 ELSE IF level = "Medium" THEN 1 ELSE 0

\* C6: the risk level is "Low" iff score >= 70, "Medium" iff 40 <= score <=
\* 69, "High" iff score <= 39, for every score in 0..100 and in every result;
\* a higher score never gives a worse level.
C6_RiskLevelStep ==
  /\ Done => call.result.riskLevel = StepLevel(call.result.score)
  /\ \A s \in 0..100 : determineRiskLevel(s) = StepLevel(s)
  /\ \A s \in 0..99 :
       LevelRank(determineRiskLevel(s)) <= LevelRank(determineRiskLevel(s + 1))

\* C6 witness: a result at the threshold, score 70 and level "Low"
C6_Witness ==
  /\ Done
  /\ call.result.score = 70
  /\ call.result.riskLevel = "Low"

Answered(r) == req[r].pc = "done"

WellFormedPayload(data) ==
  /\ data.t = "obj"
  /\ LET list == Field(data, "email_breaches", "breached_domains")
     IN \/ IsNullish(list)
        \/ list.t = "arr" /\ \A i \in 1..Len(list.a) : list.a[i].t = "obj"

DomainAgeBuckets ==
  {"> 10 years", "5-10 years", "2-5 years", "1-2 years", "< 1 year",
   "< 1 month", "Unknown"}

Populated(result) ==
  /\ result.score \in 0..100
  /\ result.status \in {"safe", "risky", "invalid"}
  /\ result.riskLevel \in {"Low", "Medium", "High"}
  /\ result.details.syntax \in BOOLEAN
  /\ result.details.mxRecords \in BOOLEAN
  /\ result.details.disposable \in BOOLEAN
  /\ result.details.smtp \in BOOLEAN
  /\ result.details.smtpUnverifiable \in BOOLEAN
  /\ result.details.spamTrap \in BOOLEAN
  /\ result.details.domainAge \in DomainAgeBuckets
  /\ \A i \in 1..Len(result.riskFactors) :
       /\ result.riskFactors[i].type \in {"info", "warning", "danger"}
       /\ result.riskFactors[i].description # << >>
  /\ \A i \in 1..Len(result.breaches) :
       DOMAIN result.breaches[i] = {"domain", "date"}
  /\ result.providerName.t \in {"null", "str"}

\* the result of the payload with every optional field absent
EmptyPayloadResult ==
  [score |-> 50, status |-> "risky", riskLevel |-> "Medium",
   details |-> [syntax |-> FALSE, mxRecords |-> FALSE, disposable |-> FALSE,
                smtp |-> FALSE, smtpUnverifiable |-> FALSE, spamTrap |-> FALSE,
                domainAge |-> "Unknown"],
   riskFactors |-> << >>, breaches |-> << >>, providerName |-> Null]

\* C8: for every payload that is an object, with any of its fields or sections
\* absent or null, the engine throws nothing and the result is fully
\* populated; for the payload with every field absent it is score 50, "risky",
\* "Medium", no factors, no breaches, providerName null, domainAge "Unknown"
\* and every detail false.
C8_NoFailure ==
  (call.stage \in {"done", "threw"} /\ WellFormedPayload(call.data)) =>
    /\ call.stage = "done"
    /\ Populated(call.result)
    /\ call.data = EmptyPayload => call.result = EmptyPayloadResult

\* C8 witness: every section of the payload is null, on a major provider
C8_Witness ==
  /\ Done
  /\ call.email = MixedCaseGmailAddress
  /\ call.data = Payload(Null, Null, Null, Null, Null, Null, Null)
  /\ call.result = EmptyPayloadResult

\* the body holds a well-formed email
WellFormedBody(body) ==
  /\ body.t = "obj"
  /\ Get(body, "email").t = "str"
  /\ IsEmail(Get(body, "email").s)

\* the rows request r stored
RowsBy(r) == {i \in 1..Len(history) : history[i].by = r}

\* C9: a request whose body holds no well-formed email is answered with 400
\* and an error message; no call of the reputation service, no run of the
\* engine and no write is made for it.
C9_ValidationFailure ==
  \A r \in Requests :
    (req[r].pc # "idle" /\ ~WellFormedBody(req[r].body)) =>
      /\ Answered(r)
      /\ req[r].status = 400
      /\ req[r].error # ""
      /\ req[r].result = None
      /\ req[r].fetches = 0
      /\ req[r].engine = 0
      /\ req[r].writes = 0
      /\ RowsBy(r) = {}

\* C9 witness: a malformed address is refused after another request's row
\* was stored
C9_Witness ==
  \E r \in Requests :
    /\ Answered(r)
    /\ req[r].body = Obj([email |-> Str(NoAtSign)])
    /\ req[r].status = 400
    /\ Len(history) = 1

\* C10: without the credential, a request with a valid email is answered with
\* 500 "service not configured"; nothing is fetched, the engine does not run
\* and nothing is stored.
C10_NotConfigured ==
  ~Truthy(apiKey) =>
    /\ history = << >>
    /\ \A r \in Requests :
         (req[r].pc # "idle" /\ WellFormedBody(req[r].body)) =>
           /\ Answered(r)
           /\ req[r].status = 500
           /\ req[r].error = "Email verification service not configured"
           /\ req[r].fetches = 0
           /\ req[r].engine = 0
           /\ req[r].writes = 0

\* C10 witness: the credential is the empty string and a valid request was
\* answered with 500
C10_Witness ==
  /\ apiKey = Str(<< >>)
  /\ \E r \in Requests :
       /\ Answered(r)
       /\ WellFormedBody(req[r].body)
       /\ req[r].status = 500


\* the request's call of the reputation service failed
UpstreamFailed(r) == req[r].upstream \in {"network", "non2xx", "unparseable"}

\* C11: a verify request calls the reputation service at most once; when the
\* call ends in a network error, a non-2xx response or a body that is no JSON,
\* the request is answered with 500, the engine never runs for it and no
\* history row is written for it.
C11_UpstreamFailure ==
  \A r \in Requests :
    /\ req[r].fetches <= 1
    /\ UpstreamFailed(r) =>
         /\ Answered(r)
         /\ req[r].status = 500
         /\ req[r].error # ""
         /\ req[r].result = None
         /\ req[r].fetches = 1
         /\ req[r].engine = 0
         /\ req[r].writes = 0
         /\ RowsBy(r) = {}

\* C11 witness: one request met a non-2xx response and another a network
\* error, both answered
C11_Witness ==
  \E r1 \in Requests : \E r2 \in Requests :
    /\ req[r1].upstream = "non2xx" /\ Answered(r1) /\ req[r1].status = 500
    /\ req[r2].upstream = "network" /\ Answered(r2) /\ req[r2].status = 500

\* the request got past storage.createVerification and was answered
AnsweredAfterWrite(r) == Answered(r) /\ req[r].writes = 1

\* C12: the answer does not depend on the outcome of the write: two requests
\* with the same email and payload, one whose row was stored and one whose
\* write failed, are answered with the same status code and the same body;
\* the answer is the one computed from the email and the payload alone, a 200
\* with the full result for a well-formed payload.
C12_WriteFailureInvisible ==
  /\ \A r1 \in Requests : \A r2 \in Requests :
       ( /\ AnsweredAfterWrite(r1) /\ AnsweredAfterWrite(r2)
         /\ req[r1].email = req[r2].email
         /\ req[r1].data = req[r2].data )
       => /\ req[r1].status = req[r2].status
          /\ req[r1].result = req[r2].result
          /\ req[r1].error = req[r2].error
  /\ \A r \in Requests :
       (AnsweredAfterWrite(r) /\ WellFormedPayload(req[r].data)) =>
         /\ req[r].status = 200
         /\ req[r].result # None
         /\ Populated(req[r].result)
         /\ req[r].result.score = req[r].verificationData.score
         /\ req[r].result.status = req[r].verificationData.status

\* C12 witness: the same email and payload verified twice and answered with
\* 200, the first row stored and the second write failed
C12_Witness ==
  \E r1 \in Requests : \E r2 \in Requests :
    /\ AnsweredAfterWrite(r1) /\ AnsweredAfterWrite(r2)
    /\ req[r1].email = req[r2].email
    /\ req[r1].data = req[r2].data
    /\ RowsBy(r1) # {}
    /\ RowsBy(r2) = {}
    /\ req[r2].status = 200

\* the N of a history request
RequestedLimit(query) ==
  CASE query = Str(<<"1">>) -> 1
    [] query = Str(<<"2">>) -> 2
    [] OTHER -> 10

\* rows is an answer to "the n newest of table"
NewestFirst(table, rows, n) ==
  /\ Len(rows) <= n
  /\ Len(rows) = Min(n, Len(table))
  /\ \A i \in 1..Len(rows) : \E k \in 1..Len(table) : rows[i] = table[k]
  /\ \A i \in 1..Len(rows) : \A j \in 1..Len(rows) :
       i < j => /\ rows[i].id # rows[j].id
                /\ rows[i].createdAt >= rows[j].createdAt
  /\ \A k \in 1..Len(table) :
       (\A i \in 1..Len(rows) : rows[i].id # table[k].id) =>
         \A i \in 1..Len(rows) : table[k].createdAt <= rows[i].createdAt

\* C13: a history request with limit N is answered with at most N rows, the N
\* most recently created of the table, newest first; without a limit
\* parameter N is 10.
C13_RecentFirst ==
  [][(listing' # listing /\ listing'.status = 200) =>
       NewestFirst(history, listing'.rows, RequestedLimit(listing'.query))]_vars

\* C13 witness: a request without a limit answered with 10 rows of a table of
\* more, the row just verified first
C13_Witness ==
  /\ listing # None
  /\ listing.status = 200
  /\ listing.query = Undefined
  /\ listing.seen > 10
  /\ Len(listing.rows) = 10
  /\ listing.rows[1].by # 0

\* request r's write succeeds in this step
WriteSucceeds(r) == req[r].pc = "writing" /\ req'[r].pc = "written"

\* C14: the history is append-only: a step either leaves the table as it is
\* or is the successful write of one verification, which adds exactly one row,
\* the snapshot of that verification, after the rows already there; every
\* successful write adds its row.
C14_AppendOnly ==
  [][ /\ history' # history =>
           \E r \in Requests :
             /\ WriteSucceeds(r)
             /\ Len(history') = Len(history) + 1
             /\ SubSeq(history', 1, Len(history)) = history
             /\ history'[Len(history')].by = r
             /\ history'[Len(history')].row = req[r].verificationData
      /\ \A r \in Requests :
           WriteSucceeds(r) => Len(history') = Len(history) + 1 ]_vars

\* C14 witness: a verification stored its row after the rows of earlier runs,
\* and a history request was answered
C14_Witness ==
  /\ Len(history) = EarlierRowCount + 1
  /\ SubSeq(history, 1, EarlierRowCount) = EarlierRows
  /\ listing # None
  /\ listing.status = 200
  /\ listing.seen = Len(history)


\* the number of factors of these severities
CountOf(factors, types) ==
  Cardinality({i \in 1..Len(factors) : factors[i].type \in types})

\* C15: when the deliverability status is not "undeliverable", the status is
\* "risky" if the factors hold a danger factor or more than one factor of
\* severity warning or danger; otherwise it is "safe" iff score >= 70, "risky"
\* iff 40 <= score <= 69 and "invalid" iff score < 40.
C15_StatusRule ==
  (Done /\ ~Undeliverable(call.data)) =>
    LET factors == call.result.riskFactors
        score == call.result.score
    IN call.result.status =
         IF CountOf(factors, {"danger"}) >= 1 THEN "risky"
         ELSE IF CountOf(factors, {"warning", "danger"}) > 1 THEN "risky"
         ELSE IF score >= 70 THEN "safe"
         ELSE IF score >= 40 THEN "risky"
         ELSE "invalid"

\* C15 witness: a single warning factor, no danger factor, beside info
\* factors, and the status is "safe"
C15_Witness ==
  /\ Done
  /\ CountOf(call.result.riskFactors, {"warning"}) = 1
  /\ CountOf(call.result.riskFactors, {"danger"}) = 0
  /\ CountOf(call.result.riskFactors, {"info"}) >= 1
  /\ call.result.status = "safe"

\* the place of a factor in the rule table of C16
RuleRank(label) ==
  CASE label = "Suspicious Domain" -> 1
    [] label = "Uncommon Username" -> 2
    [] label = "Unusual Username" -> 3
    [] label = "High Risk Address" -> 4
    [] label = "Medium Risk Classification" -> 5
    [] label = "Data Breaches" -> 6
    [] label = "Disposable Email" -> 7
    [] label = "Role-Based Email" -> 8
    [] label = "Catch-All Domain" -> 9
    [] label = "Free Email Provider" -> 10
    [] label = "SPF Not Strict" -> 11
    [] OTHER -> 0

\* C16: the factors of every result come in the order of the rule table, with
\* Medium Risk Classification after High Risk Address and before Data Breaches.
C16_RuleOrder ==
  Done =>
    \A i \in 1..Len(call.result.riskFactors) :
      \A j \in 1..Len(call.result.riskFactors) :
        i < j => RuleRank(call.result.riskFactors[i].label)
                 < RuleRank(call.result.riskFactors[j].label)

\* the starting value of C17
StartingValue(data) ==
  LET quality == Field(data, "email_quality", "score")
      deliv(field) == Field(data, "email_deliverability", field)
  IN IF quality \notin {Undefined, Null}
       THEN (quality.m + 5) \div 10
       ELSE 50 + 15 * Cardinality({field \in {"is_format_valid", "is_mx_valid",
                                              "is_smtp_valid"} :
                                     deliv(field) = True})

\* the neutral adjustment of C5
NeutralAdjustment(data, smtpUnverifiable) ==
  IF smtpUnverifiable /\ ~HasQualityScore(data) THEN 10 ELSE 0

\* no penalty condition holds and no factor weighs on the score
NothingHeldAgainst(data, factors) ==
  /\ PayloadPenalty(data) = 0
  /\ CountOf(factors, {"warning", "danger"}) = 0

PenaltyTable ==
  { <<"email_deliverability", "is_smtp_valid", False, 25>>,
    <<"email_deliverability", "is_mx_valid", False, 30>>,
    <<"email_deliverability", "status", Lit("undeliverable"), 20>>,
    <<"email_deliverability", "status", Lit("unknown"), 15>>,
    <<"email_quality", "is_catchall", True, 10>>,
    <<"email_quality", "is_role", True, 5>>,
    <<"email_risk", "address_risk_status", Lit("medium"), 10>>,
    <<"email_risk", "address_risk_status", Lit("high"), 20>> }

RECURSIVE SumOf(_)
SumOf(penalties) ==
  IF penalties = {} THEN 0
  ELSE LET p == CHOOSE q \in penalties : TRUE
       IN p[4] + SumOf(penalties \ {p})

\* the sum of the penalties whose condition holds
PenaltiesDue(data) ==
  SumOf({p \in PenaltyTable : Field(data, p[1], p[2]) = p[3]})

\* C18: the pre-clamp score is the starting value minus the sum of the
\* deterministic penalties whose condition holds minus the per-factor
\* penalties, with and without the quality override.
C18_PenaltiesAdditive ==
  Done =>
    call.raw = StartScore(call.data, call.smtpUnverifiable)
               - PenaltiesDue(call.data)
               - FactorsPenalty(call.riskFactors)

\* C18 witness: the quality override with six penalties at once
C18_Witness ==
  /\ Done
  /\ Field(call.data, "email_quality", "score") = Num(1000)
  /\ PenaltiesDue(call.data) = 25 + 30 + 20 + 10 + 5 + 20
  /\ call.raw < 0


\* the cost of a factor as C19 states it
FactorCost(factor) ==
  CASE factor.type = "danger" /\ factor.label = "Suspicious Domain" -> 50
    [] factor.type = "danger" /\ factor.label # "Suspicious Domain" -> 30
    [] factor.type = "warning" -> 15
    [] factor.type = "info" -> 0

RECURSIVE CostOf(_)
CostOf(factors) ==
  IF factors = << >> THEN 0
  ELSE FactorCost(factors[1]) + CostOf(SubSeq(factors, 2, Len(factors)))

\* data with one field of one of its sections absent
Without(data, section, field) ==
  Obj([data.f EXCEPT ![section] = Obj([@.f EXCEPT ![field] = Undefined])])

RiskTier(data) == Field(data, "email_risk", "address_risk_status")

\* C19: each factor lowers the pre-clamp score by 50 (danger, "Suspicious
\* Domain"), 30 (any other danger), 15 (warning) or 0 (info), on top of the
\* deterministic penalties: a catch-all domain with a risk tier other than
\* high costs 25 in all, a role account 20, and the risk tier high, which
\* always brings the High Risk Address factor, 50 (off a catch-all domain,
\* where no Catch-All Domain factor goes away with it).
C19_FactorPenalties ==
  Done =>
    /\ call.raw = StartScore(call.data, call.smtpUnverifiable)
                  - PayloadPenalty(call.data)
                  - CostOf(call.result.riskFactors)
    /\ ( /\ IsTrue(Field(call.data, "email_quality", "is_catchall"))
         /\ ~IsLit(RiskTier(call.data), "high") )
         => call.raw =
              RawOn(call.email, Without(call.data, "email_quality", "is_catchall"))
              - 25
    /\ IsTrue(Field(call.data, "email_quality", "is_role"))
         => call.raw =
              RawOn(call.email, Without(call.data, "email_quality", "is_role"))
              - 20
    /\ IsLit(RiskTier(call.data), "high")
         => /\ HasFactor(call.result.riskFactors, "danger", "High Risk Address")
            /\ ~IsTrue(Field(call.data, "email_quality", "is_catchall"))
                 => call.raw =
                      RawOn(call.email,
                            Without(call.data, "email_risk", "address_risk_status"))
                      - 50

\* C19 witness: a role account on a catch-all domain of medium risk, with both
\* warning factors and the info factor
C19_Witness ==
  /\ Done
  /\ IsLit(RiskTier(call.data), "medium")
  /\ HasFactor(call.result.riskFactors, "warning", "Role-Based Email")
  /\ HasFactor(call.result.riskFactors, "warning", "Catch-All Domain")
  /\ HasFactor(call.result.riskFactors, "info", "Medium Risk Classification")
  /\ CostOf(call.result.riskFactors) = 30

\* the quality section of the payload, every field absent when there is none
QualityOf(data) ==
  IF Get(data, "email_quality").t = "obj" THEN Get(data, "email_quality")
  ELSE Quality(Undefined, Undefined, Undefined, Undefined, Undefined, Undefined,
               Undefined, Undefined)

\* data with one field of its quality section replaced
WithQuality(data, field, v) ==
  Obj([data.f EXCEPT !.email_quality = Obj([QualityOf(data).f EXCEPT ![field] = v])])

\* data with the username of its address replaced, the domain kept
WithUsername(data, username) ==
  LET address == Get(data, "email_address")
      parts == IF address.t = "str" THEN Split(address.s, "@") ELSE << >>
  IN Obj([data.f EXCEPT !.email_address =
            IF Len(parts) >= 2 THEN Str(username \o <<"@">> \o parts[2])
            ELSE Str(username)])

\* "test1" matches a test-account pattern, "jo" matches none
TestUsername == <<"t", "e", "s", "t", "1">>

PlainUsername == <<"j", "o">>

\* data with every info-only condition set, and with none
AllInfo(data) ==
  WithUsername(
    WithQuality(WithQuality(WithQuality(WithQuality(data,
      "is_free_email", True), "is_username_suspicious", True),
      "is_spf_strict", False), "is_dmarc_enforced", True),
    TestUsername)

NoInfo(data) ==
  WithUsername(
    WithQuality(WithQuality(WithQuality(WithQuality(data,
      "is_free_email", Undefined), "is_username_suspicious", Undefined),
      "is_spf_strict", Undefined), "is_dmarc_enforced", Undefined),
    PlainUsername)

\* the payloads that differ from data in info-only conditions alone
InfoVariants(data) ==
  { WithQuality(data, "is_free_email", v) : v \in {True, Undefined} }
  \cup { WithQuality(data, "is_username_suspicious", v) : v \in {True, Undefined} }
  \cup { WithQuality(WithQuality(data, "is_spf_strict", False),
                     "is_dmarc_enforced", True),
         WithQuality(WithQuality(data, "is_spf_strict", Undefined),
                     "is_dmarc_enforced", Undefined) }
  \cup { WithUsername(data, u) : u \in {TestUsername, PlainUsername} }
  \cup { AllInfo(data), NoInfo(data) }

\* C20: a payload that differs from the one verified only in whether the
\* username matches a test-account pattern, whether the username is flagged,
\* whether the free-email flag is set, or whether SPF is not strict with DMARC
\* enforced, gets the same score and the same status.
C20_InfoOnly ==
  Done =>
    \A variant \in InfoVariants(call.data) :
      LET factors == detectRiskFactors(variant)
          score == calculateScore(variant, factors,
                                  smtpUnverifiableOf(call.email, variant))
      IN /\ score = call.result.score
         /\ determineStatus(score, variant, factors) = call.result.status

\* C20 witness: all four info factors at once, and the status is "safe"
C20_Witness ==
  /\ Done
  /\ HasFactor(call.result.riskFactors, "info", "Uncommon Username")
  /\ HasFactor(call.result.riskFactors, "info", "Unusual Username")
  /\ HasFactor(call.result.riskFactors, "info", "Free Email Provider")
  /\ HasFactor(call.result.riskFactors, "info", "SPF Not Strict")
  /\ NoInfo(call.data) # call.data
  /\ call.result.status = "safe"


\* the domain age in days the payload supplies, a number
SuppliedAge(data) == Field(data, "email_domain", "domain_age")

\* C21: for a payload that supplies a domain age of d >= 0 days, d = 0
\* included, domainAge is "> 10 years" iff d >= 3650, "5-10 years" iff 1825 <=
\* d < 3650, "2-5 years" iff 730 <= d < 1825, "1-2 years" iff 365 <= d < 730
\* and "< 1 year" iff d < 365; with no age supplied it is "> 10 years" for
\* free email, else "< 1 month" for disposable, else "Unknown".
C21_DomainAgeBuckets ==
  Done =>
    call.result.details.domainAge =
      IF SuppliedAge(call.data).t = "num"
        THEN LET d == SuppliedAge(call.data).m \div 1000
             IN IF d >= 3650 THEN "> 10 years"
                ELSE IF d >= 1825 THEN "5-10 years"
                ELSE IF d >= 730 THEN "2-5 years"
                ELSE IF d >= 365 THEN "1-2 years"
                ELSE "< 1 year"
      ELSE IF Field(call.data, "email_quality", "is_free_email") = True
        THEN "> 10 years"
      ELSE IF Field(call.data, "email_quality", "is_disposable") = True
        THEN "< 1 month"
      ELSE "Unknown"

\* the labels of the factors
LabelsOf(factors) == {factors[i].label : i \in 1..Len(factors)}

\* C22: the list holds a warning factor "Catch-All Domain" iff the catch-all
\* flag is true and the risk tier is not "high"; no list holds "Catch-All
\* Domain" with "High Risk Address", nor "High Risk Address" with "Medium Risk
\* Classification".
C22_CatchAllUnlessHigh ==
  Done =>
    /\ HasFactor(call.result.riskFactors, "warning", "Catch-All Domain")
         <=> ( /\ Field(call.data, "email_quality", "is_catchall") = True
               /\ RiskTier(call.data) # Lit("high") )
    /\ "Catch-All Domain" \in LabelsOf(call.result.riskFactors)
         => HasFactor(call.result.riskFactors, "warning", "Catch-All Domain")
    /\ ~({"Catch-All Domain", "High Risk Address"}
           \subseteq LabelsOf(call.result.riskFactors))
    /\ ~({"High Risk Address", "Medium Risk Classification"}
           \subseteq LabelsOf(call.result.riskFactors))

\* C22 witness: a catch-all domain of high risk: the High Risk Address factor
\* and no Catch-All Domain factor
C22_Witness ==
  /\ Done
  /\ Field(call.data, "email_quality", "is_catchall") = True
  /\ RiskTier(call.data) = Lit("high")
  /\ "High Risk Address" \in LabelsOf(call.result.riskFactors)
  /\ "Catch-All Domain" \notin LabelsOf(call.result.riskFactors)

\* the sub-reasons of C23 whose condition holds, in the claim's order; a
\* quality score that is absent or null is no low quality score
SubReasons(data) ==
  LET quality == Field(data, "email_quality", "score")
  IN (IF quality.t = "num" /\ quality.m < 300
        THEN <<"very low quality score from reputation analysis">> ELSE << >>)
     \o (IF Field(data, "email_deliverability", "status") = Lit("unknown")
           THEN <<"email deliverability could not be confirmed">> ELSE << >>)
     \o (IF Field(data, "email_quality", "is_catchall") = True
           THEN <<"domain accepts all emails (catch-all), making it impossible to verify if this specific address exists">>
           ELSE << >>)
     \o (IF /\ Field(data, "email_quality", "is_free_email") = True
            /\ Field(data, "email_risk", "domain_risk_status") = Lit("low")
           THEN <<"combination of unverifiable address on a free email provider">>
           ELSE << >>)

\* the sub-reasons with "; " between them
RECURSIVE Listed(_)
Listed(reasons) ==
  IF Len(reasons) <= 1 THEN reasons
  ELSE <<reasons[1], "; ">> \o Listed(Tail(reasons))

\* the description of the High Risk Address factor as C23 states it
HighRiskDescription(data) ==
  <<"This email has been classified as high risk by reputation analysis. ">>
  \o (IF SubReasons(data) = << >>
        THEN <<"The email reputation service detected patterns associated with spam, fraud, or abuse based on historical data and behavioral analysis.">>
        ELSE <<"Reasons: ">> \o Listed(SubReasons(data)) \o <<".">>)

\* the factors of this label
WithLabel(factors, label) ==
  {i \in 1..Len(factors) : factors[i].label = label}

\* C23: with the risk tier "high" the list holds exactly one factor "High Risk
\* Address", a danger factor, whose description lists the sub-reasons that
\* hold, in order, joined by "; ", or the generic explanation when none holds;
\* an absent or null quality score is no low quality score.
C23_HighRiskReasons ==
  (Done /\ RiskTier(call.data) = Lit("high")) =>
    LET factors == call.result.riskFactors
    IN /\ Cardinality(WithLabel(factors, "High Risk Address")) = 1
       /\ \A i \in WithLabel(factors, "High Risk Address") :
            /\ factors[i].type = "danger"
            /\ factors[i].description = HighRiskDescription(call.data)

\* the breach count of the payload, an absent count being 0
CountOfBreaches(data) ==
  LET total == Field(data, "email_breaches", "total_breaches")
  IN IF total.t = "num" THEN total.m \div 1000 ELSE 0

\* the decimal digits of a count below 100
CountDigits(n) ==
  IF n < 10 THEN <<Digits[n + 1]>>
  ELSE <<Digits[(n \div 10) + 1], Digits[(n % 10) + 1]>>

ExposureTiers == {"some exposure", "moderate exposure", "significant exposure"}

\* C24: the list holds a "Data Breaches" factor iff the breach count is above
\* 0; it is a warning for 1..10 and a danger above 10, and its description
\* states the count and the exposure tier: "some exposure" for 1..5, "moderate
\* exposure" for 6..10, "significant exposure" above 10.
C24_DataBreaches ==
  Done =>
    LET factors == call.result.riskFactors
        n == CountOfBreaches(call.data)
        digits == CountDigits(n)
    IN /\ "Data Breaches" \in LabelsOf(factors) <=> n > 0
       /\ Cardinality(WithLabel(factors, "Data Breaches")) <= 1
       /\ \A i \in WithLabel(factors, "Data Breaches") :
            LET d == factors[i].description
            IN /\ factors[i].type = IF n > 10 THEN "danger" ELSE "warning"
               /\ d[1] = "This email was found in "
               /\ SubSeq(d, 2, 1 + Len(digits)) = digits
               /\ d[2 + Len(digits)] = " known data breach"
               /\ {d[k] : k \in 1..Len(d)} \cap ExposureTiers =
                    {IF n > 10 THEN "significant exposure"
                     ELSE IF n > 5 THEN "moderate exposure"
                     ELSE "some exposure"}

\* C24 witness: a count of 15: a danger factor that states "15" and
\* "significant exposure"
C24_Witness ==
  /\ Done
  /\ CountOfBreaches(call.data) = 15
  /\ \E i \in WithLabel(call.result.riskFactors, "Data Breaches") :
       /\ call.result.riskFactors[i].type = "danger"
       /\ SubSeq(call.result.riskFactors[i].description, 2, 3) = <<"1", "5">>
       /\ \E k \in 1..Len(call.result.riskFactors[i].description) :
            call.result.riskFactors[i].description[k] = "significant exposure"


\* the status the rules give, read off the result
StatusByRule(data, factors, score) ==
  IF Field(data, "email_deliverability", "status") = Lit("undeliverable")
    THEN "invalid"
  ELSE IF CountOf(factors, {"danger"}) >= 1 THEN "risky"
  ELSE IF CountOf(factors, {"warning", "danger"}) > 1 THEN "risky"
  ELSE IF score >= 70 THEN "safe"
  ELSE IF score >= 40 THEN "risky"
  ELSE "invalid"

\* C25: status and risk level are each computed on their own and neither is
\* adjusted to the other: the risk level is the step of the score, the status
\* is the one its rules give, and an undeliverable address whose score is at
\* least 40 is "invalid" with riskLevel "Medium" (40..69) or "Low" (70 and up).
C25_NotReconciled ==
  Done =>
    /\ call.result.riskLevel = StepLevel(call.result.score)
    /\ call.result.status =
         StatusByRule(call.data, call.result.riskFactors, call.result.score)
    /\ (Undeliverable(call.data) /\ call.result.score >= 40) =>
         /\ call.result.status = "invalid"
         /\ call.result.riskLevel =
              IF call.result.score >= 70 THEN "Low" ELSE "Medium"

\* C25 witness: status "invalid" with riskLevel "Medium"
C25_Witness ==
  /\ Done
  /\ Undeliverable(call.data)
  /\ call.result.status = "invalid"
  /\ call.result.riskLevel = "Medium"

\* C26: a result of status "safe" has riskLevel "Low", a score of at least 70,
\* no danger factor, at most one warning factor and a deliverability status
\* other than "undeliverable".
C26_SafeIsLow ==
  (Done /\ call.result.status = "safe") =>
    /\ call.result.riskLevel = "Low"
    /\ call.result.score >= 70
    /\ CountOf(call.result.riskFactors, {"danger"}) = 0
    /\ CountOf(call.result.riskFactors, {"warning"}) <= 1
    /\ ~Undeliverable(call.data)

\* C26 witness: "safe" at the threshold, score 70 with one warning factor
C26_Witness ==
  /\ Done
  /\ call.result.status = "safe"
  /\ call.result.score = 70
  /\ call.result.riskLevel = "Low"
  /\ CountOf(call.result.riskFactors, {"warning"}) = 1


\* the request was answered with a 200 and its row was stored
StoredAndAnswered(r) ==
  Answered(r) /\ req[r].status = 200 /\ RowsBy(r) # {}

\* C27: for a verification answered with 200 whose write succeeded, the one
\* row stored for it carries the values of the response in every field they
\* share, and the email of the request.
C27_RowMatchesResponse ==
  \A r \in Requests :
    StoredAndAnswered(r) =>
      /\ Cardinality(RowsBy(r)) = 1
      /\ \A i \in RowsBy(r) :
           LET row == history[i].row
               result == req[r].result
           IN /\ row.email = Get(req[r].body, "email").s
              /\ row.score = result.score
              /\ row.status = result.status
              /\ row.riskLevel = result.riskLevel
              /\ row.syntaxValid = result.details.syntax
              /\ row.mxRecords = result.details.mxRecords
              /\ row.disposable = result.details.disposable
              /\ row.smtpValid = result.details.smtp
              /\ row.spamTrap = result.details.spamTrap
              /\ row.domainAge = result.details.domainAge

\* C27 witness: two verifications of different emails and payloads, both
\* stored and answered, the second row stored first
C27_Witness ==
  /\ StoredAndAnswered(1)
  /\ StoredAndAnswered(2)
  /\ req[1].email # req[2].email
  /\ req[1].result.score # req[2].result.score
  /\ history[1].by = 2


\* the limit of the history request that produced the listing l
LimitAsked(l) == LimitOf(l.query).m \div 1000

\* the listing l shows the row at index i of the table, or is filled to its
\* limit with rows that are no older
Shows(l, i) ==
  \/ \E k \in 1..Len(l.rows) : l.rows[k].id = history[i].id
  \/ /\ Len(l.rows) = LimitAsked(l)
     /\ \A k \in 1..Len(l.rows) : l.rows[k].createdAt >= history[i].createdAt

\* C28: a 200 is sent only from a handler whose one write has been attempted
\* and has finished, by succeeding or by throwing; once the 200 is sent the
\* write is not in progress; and a history request answered after the 200 was
\* computed from a table that holds the row, and lists it within its limit,
\* if the write succeeded.
C28_WriteBeforeResponse ==
  [][\A r \in Writers :
       /\ (req[r].responses = 0 /\ req'[r].responses > 0
             /\ req'[r].status = 200) =>
            /\ req[r].writes = 1
            /\ req[r].pc \in {"written", "writeFailed"}
       /\ (req'[r].responses > 0 /\ req'[r].status = 200) =>
            /\ req'[r].pc = "done"
            /\ req'[r].writes = 1
       /\ (req[r].responses > 0 /\ req[r].status = 200 /\ RowsBy(r) # {}
             /\ listing' # listing /\ listing'.status = 200) =>
            \A i \in RowsBy(r) :
              /\ listing'.seen >= i
              /\ Shows(listing', i)]_vars

\* C28 witness: the write succeeded, the 200 was sent, and a history request
\* over the table of eleven rows lists the new row
C28_Witness ==
  \E r \in Writers :
    /\ StoredAndAnswered(r)
    /\ listing # None
    /\ listing.status = 200
    /\ listing.seen = EarlierRowCount + 1
    /\ \E k \in 1..Len(listing.rows) : listing.rows[k].by = r

\* the request has reached the handler
Arrived(r) == req[r].pc # "idle"

\* res.json was called at most once for the request, and once if its handler
\* has ended, with a status of the handler's paths
AnsweredOnce(r) ==
  /\ req[r].responses <= 1
  /\ Answered(r) <=> req[r].responses = 1
  /\ Answered(r) =>
       /\ req[r].status \in {200, 400, 500}
       /\ req[r].status = 400 <=> ~ParseOk(req[r].body)
       /\ req[r].status = 200 => req[r].upstream = "json"

\* C29: every verify request that arrives is answered, and answered once: 400
\* exactly when validation fails, else 500 or 200; res.json is never called
\* twice, and a handler that has ended has called it; provided the promises
\* the handler awaits settle.
C29_ExactlyOneResponse ==
  /\ [](\A r \in Writers : AnsweredOnce(r))
  /\ \A r \in Writers : Arrived(r) ~> Answered(r)

\* C29 witness: an exception after the write was stored, answered once with
\* a 500
C29_Witness ==
  \E r \in Writers :
    /\ Answered(r)
    /\ req[r].responses = 1
    /\ req[r].status = 500
    /\ req[r].writes = 1
    /\ RowsBy(r) # {}


\* the step starts submission s
Started(s) == home.run[s].pc # "fetching" /\ home'.run[s].pc = "fetching"

\* the step settles submission s
Settled(s) == home.run[s].pc # "settled" /\ home'.run[s].pc = "settled"

\* C30: the step that starts a submission leaves isScanning true, result
\* null, progress 0 and exactly one timer live, its own; the step that settles
\* a submission, however it ended, leaves isScanning false and no timer live,
\* and leaves a result other than null only if the response was ok and its
\* body parsed; while a submission is under way the result is null.
C30_SubmissionLifecycle ==
  [][\A s \in Submissions :
       /\ Started(s) =>
            /\ home'.isScanning
            /\ home'.result = Null
            /\ home'.progress = 0
            /\ s \notin home.intervals
            /\ home'.intervals = {s}
       /\ Settled(s) =>
            /\ ~home'.isScanning
            /\ home'.intervals = {}
            /\ home'.run[s].outcome \in
                 {"ok", "errorResponse", "networkFailure", "unparseable"}
            /\ home'.result # Null => home'.run[s].outcome = "ok"
       /\ home'.run[s].pc \in {"fetching", "readingError", "readingBody"} =>
            /\ home'.isScanning
            /\ home'.result = Null]_vars

\* C30 witness: a submission succeeded and showed its result, and the next
\* one failed on an error response: nothing is displayed and no timer runs
C30_Witness ==
  /\ home.run[1] = [pc |-> "settled", outcome |-> "ok"]
  /\ home.run[2] = [pc |-> "settled", outcome |-> "errorResponse"]
  /\ home.toast = "Verification Failed"
  /\ home.result = Null
  /\ home.intervals = {}
  /\ ~home.isScanning

==========================================================================
